---- MODULE Spec2Model ----
(***************************************************************************)
(* A model of the orchestration core of nestjs-langchain-tools: the tool   *)
(* execution envelope built by ToolDiscoveryService, ToolTimeoutService,   *)
(* ToolStreamService, MemoryService and tool discovery.                    *)
(*                                                                         *)
(* Scheduling is that of a JavaScript event loop: an action is one         *)
(* macrotask (a call, a timer callback, the settling of a tool body)       *)
(* together with every continuation that runs in its microtasks.  Time is  *)
(* abstracted: an armed timer may fire at any later step.                  *)
(***************************************************************************)
EXTENDS Integers, Sequences, FiniteSets, TLC

\* ------------------------------------------------------------------ bounds
MaxExec == 1        \* tool invocations in one behaviour
MaxProgress == 1    \* updateToolProgress calls made by one tool body
MaxSets == 2        \* live setter calls on the timeout service
MaxMethods == 3     \* methods on a scanned component
MaxMsgs == 3        \* appends to the session store in one behaviour
MaxCalls == 2       \* processMessage calls in one behaviour
MaxTurns == 1       \* processMessage calls made one after the other
MaxChunks == 2      \* chunks of one streamLog stream
MaxDelegations == 1 \* delegation tool calls within one processMessage call
MaxProviders == 2   \* providers seen by one agent discovery pass
MaxPasses == 2      \* agent discovery passes in one behaviour
MaxInvokes == 2     \* invokes of one retrieval wrapper
MaxStreamOps == 4   \* calls of the stream service's methods in one behaviour

\* ------------------------------------------------- program constants
DEFAULT_TOOL_STREAMING_ENABLED == FALSE
DEFAULT_TOOL_TIMEOUT == 30000
DEFAULT_TOOL_TIMEOUT_ENABLED == TRUE

Undefined == "undefined"

\* A value of type ToolTimeoutOptions | number | undefined, tagged by its type.
NoTimeout == [kind |-> "undefined", enabled |-> FALSE, durationMs |-> 0]
NumberTimeout(n) == [kind |-> "number", enabled |-> FALSE, durationMs |-> n]
ObjectTimeout(en, n) == [kind |-> "object", enabled |-> en, durationMs |-> n]

ToolSet ==
  { [name |-> "echo", streaming |-> TRUE,  timeout |-> NoTimeout],
    [name |-> "slow", streaming |-> TRUE,  timeout |-> NumberTimeout(50)],
    [name |-> "cfg",  streaming |-> FALSE, timeout |-> ObjectTimeout(TRUE, 20)],
    [name |-> "off",  streaming |-> TRUE,  timeout |-> ObjectTimeout(FALSE, 20)] }

ToolNames == { t.name : t \in ToolSet }

\* What a tool body can settle with.
Results == {"hi"}
\* An Error raised by a body: its message, and whether it is an instance of
\* ToolTimeoutError (a body that lets a nested executeWithTimeout fail).
BodyErrors ==
  { [message |-> "fail", isTimeoutError |-> FALSE],
    [message |-> "Tool \"inner\" execution timed out after 5ms", isTimeoutError |-> TRUE] }

VARIABLES
  \* ToolStreamService
  streamEnabled,      \* private streamEnabled
  callback,           \* private callback (Undefined or a callback's name)
  streams,            \* private streams: tool name -> Subject (id 0: no entry)
  nextSubject,        \* identity given to the next Subject created
  cleanups,           \* pending setTimeout(() => streams.delete(name)) per tool name
  throwing,           \* the callbacks that throw when they are called
  \* ToolTimeoutService
  globalTimeoutEnabled,
  globalTimeoutMs,
  onToolTimeout,      \* whether a timeout callback is held
  setCalls,           \* history: the setter calls made so far
  lastConfig,         \* the last getToolTimeoutConfig call: [tool, result]
  \* executions of the tool wrapper
  execs,              \* sequence of executions, in invocation order
  \* tool discovery
  component, scanPos, tools, scanDone, scanThrew,
  \* MemoryService
  sessionMemory,      \* session id -> [has, msgs]: the Map entry, when present
  appended,           \* history: messages appended per session since its last clear
  lastRead,           \* the last getMessages call: [session, result]
  nAppends,
  adapter,            \* the SessionMemoryAdapter last made by getChatMemoryForSession
  \* AgentDiscoveryService, as the coordinator sees it
  available,          \* names of the agent providers discovery can construct
  agents,             \* private agents: the names registered
  \* CoordinatorService
  initialized,        \* private initialized
  coordinatorAgent,   \* private coordinatorAgent: 0 (null) or an executor's identity
  executors,          \* the AgentExecutor objects built: [memory, tools]
  startup,            \* the deferred initialization of onModuleInit
  calls,              \* processMessage calls, in the order they were made
  lastDelegation,     \* the last call of a delegation tool's func
  \* AgentDiscoveryService.discoverAndInitializeAgents
  agentProviders,     \* discoveryService.getProviders()
  vectorStoreService, \* whether the optional VectorStoreService was injected
  agentPos,           \* position of the pass in the providers
  agentInfos,         \* private agents: name -> AgentInfo, when registered
  passDone, passThrew,
  agentPass,          \* the passes started so far
  \* the retrieval wrapper createRetrievalChain puts around an executor
  ragOptions,         \* [storeRetrievedContext, memory]: options and executor.memory
  ragCall,            \* the invoke of the wrapper in progress, or the last one
  ragSaved,           \* what the wrapper saved in executor.memory
  nRag,               \* invokes of the wrapper so far
  \* calls of the stream service's methods
  lastOp,             \* the last call: what it was made with and what it put out
  nOps,
  \* the module options the timeout service was constructed with
  timeoutOptions

streamVars == <<streamEnabled, callback, streams, nextSubject, cleanups, throwing>>
timeoutVars == <<globalTimeoutEnabled, globalTimeoutMs, onToolTimeout>>
cfgVars == <<setCalls, lastConfig>>
discVars == <<component, scanPos, tools, scanDone, scanThrew>>
memVars == <<sessionMemory, appended, lastRead, nAppends, adapter>>
coordVars == <<available, agents, initialized, coordinatorAgent, executors,
               startup, calls, lastDelegation>>
agentVars == <<agentProviders, vectorStoreService, agentPos, agentInfos,
               passDone, passThrew, agentPass>>
ragVars == <<ragOptions, ragCall, ragSaved, nRag>>
sinkVars == <<lastOp, nOps>>
optVars == <<timeoutOptions>>
extraVars == <<ragVars, sinkVars, optVars>>
otherVars == <<coordVars, agentVars, extraVars>>
vars == <<streamVars, timeoutVars, cfgVars, execs, discVars, memVars, otherVars>>

\* ======================================================= ToolStreamService
\* The service's fields as one value, so that its methods are operators from
\* a service state to a service state and the updates they put out.
StreamState ==
  [enabled |-> streamEnabled, cb |-> callback, streams |-> streams,
   next |-> nextSubject, cleanups |-> cleanups]

NoSubject == [id |-> 0, subs |-> 0]

\* A terminal update that leaves the Subject in the map for good.
ScheduleCleanup_Never(S, toolName) == S

\* One observable step of an execution: an update handed to a Subject
\* ("emit"), an invocation of the global callback with an update
\* ("deliver", directly or through a Subject's subscription), a call of the
\* timeout callback ("onToolTimeout") or the wrapper's return ("return").
Entry(k, type, toolName, payload, cb, via) ==
  [k |-> k, type |-> type, toolName |-> toolName, payload |-> payload,
   cb |-> cb, via |-> via]

\* getToolStream: create the Subject when the map has none; a Subject created
\* while a callback is held gets one forwarding subscription.
getToolStream(S, toolName) ==
  IF S.streams[toolName].id = 0
    THEN [S EXCEPT !.streams[toolName] =
                     [id |-> S.next, subs |-> IF S.cb # Undefined THEN 1 ELSE 0],
                   !.next = S.next + 1]
    ELSE S

\* Forwarding subscriptions that call the callback of the module options,
\* captured when they were made, and not the one the service holds.
SubjectNext_CapturedCallback(S, type, toolName, payload) ==
  <<Entry("emit", type, toolName, payload, Undefined, "subject")>> \o
  [i \in 1..S.streams[toolName].subs |->
     Entry("deliver", type, toolName, payload, "A", "subject")]

\* subject.next(update): the update reaches every forwarding subscription,
\* each of which calls the callback the service holds at that time.
SubjectNext(S, type, toolName, payload) ==
  <<Entry("emit", type, toolName, payload, Undefined, "subject")>> \o
  [i \in 1..S.streams[toolName].subs |->
     Entry("deliver", type, toolName, payload, S.cb, "subject")]

\* The direct call of the callback made before the Subject is used.
DirectCall(S, type, toolName, payload) ==
  IF S.cb # Undefined
    THEN <<Entry("deliver", type, toolName, payload, S.cb, "direct")>>
    ELSE <<>>

ScheduleCleanup(S, toolName) ==
  [S EXCEPT !.cleanups[toolName] = @ + 1]

startToolExecution(S, toolName, params) ==
  IF ~S.enabled THEN [s |-> S, out |-> <<>>]
  ELSE LET S1 == getToolStream(S, toolName)
       IN [s |-> S1, out |-> SubjectNext(S1, "start", toolName, params)]

\* An updateToolProgress whose direct call of the callback is not caught: the
\* callback's exception reaches the outer catch.
ProgressCallbackCatch_Missing == FALSE

\* The try/catch around the direct call of the callback in updateToolProgress.
ProgressCallbackCatch == TRUE

\* A callback's exception that leaves the direct call skips the rest of the
\* method's try block (the Subject is not used) and is logged by its catch.
updateToolProgress(S, toolName, content) ==
  IF ~S.enabled THEN [s |-> S, out |-> <<>>]
  ELSE LET S1 == getToolStream(S, toolName)
           direct == DirectCall(S, "progress", toolName, content)
       IN IF direct # <<>> /\ S.cb \in throwing /\ ~ProgressCallbackCatch
            THEN [s |-> S, out |-> direct]
            ELSE [s |-> S1,
                  out |-> direct \o SubjectNext(S1, "progress", toolName, content)]

completeToolExecution(S, toolName, result) ==
  IF ~S.enabled THEN [s |-> S, out |-> <<>>]
  ELSE LET S1 == getToolStream(S, toolName)
       IN [s |-> ScheduleCleanup(S1, toolName),
           out |-> SubjectNext(S1, "complete", toolName, result)]

errorToolExecution(S, toolName, errorMessage) ==
  IF ~S.enabled THEN [s |-> S, out |-> <<>>]
  ELSE LET S1 == getToolStream(S, toolName)
       IN [s |-> ScheduleCleanup(S1, toolName),
           out |-> SubjectNext(S1, "error", toolName, errorMessage)]

\* timeoutToolExecution is called by ToolTimeoutService but its body is not
\* part of the sources: it publishes a timeout update (to the global sink
\* directly and on the tool's channel) and, the update being terminal,
\* schedules the channel's teardown.
timeoutToolExecution(S, toolName, timeoutMs) ==
  IF ~S.enabled THEN [s |-> S, out |-> <<>>]
  ELSE LET S1 == getToolStream(S, toolName)
       IN [s |-> ScheduleCleanup(S1, toolName),
           out |-> DirectCall(S, "timeout", toolName, ToString(timeoutMs)) \o
                   SubjectNext(S1, "timeout", toolName, ToString(timeoutMs))]

\* hasToolTimedOut is called by executeWithTimeout but is not part of the
\* sources; the multiplexer holds channels only, and no record of past
\* timeouts.
hasToolTimedOut(S, toolName) == FALSE

SetStreamState(S) ==
  /\ streamEnabled' = S.enabled
  /\ callback' = S.cb
  /\ streams' = S.streams
  /\ nextSubject' = S.next
  /\ cleanups' = S.cleanups
  /\ throwing' = throwing

\* The timer set by completeToolExecution, errorToolExecution (and the
\* timeout update) fires: streams.delete(toolName).
Cleanup(toolName) ==
  /\ cleanups[toolName] > 0
  /\ cleanups' = [cleanups EXCEPT ![toolName] = @ - 1]
  /\ streams' = [streams EXCEPT ![toolName] = NoSubject]
  /\ UNCHANGED <<streamEnabled, callback, nextSubject, throwing>>
  /\ UNCHANGED <<timeoutVars, cfgVars, execs, discVars, memVars, otherVars>>

\* ====================================================== ToolTimeoutService
\* The module options the constructor reads.
TimeoutOptionSet ==
  { [toolTimeout |-> tt, onToolTimeout |-> cb] :
      tt \in {NoTimeout, NumberTimeout(0), NumberTimeout(100),
              ObjectTimeout(TRUE, 70), ObjectTimeout(FALSE, 70)},
      cb \in BOOLEAN }

\* if (options?.toolTimeout): a number other than 0, or an object.
Truthy(tt) ==
  \/ tt.kind = "object"
  \/ tt.kind = "number" /\ tt.durationMs # 0

\* The constructor: the fields after it ran on the given options.
TimeoutConstructor(options) ==
  IF Truthy(options.toolTimeout)
    THEN [enabled |-> IF options.toolTimeout.kind = "number" THEN TRUE
                      ELSE options.toolTimeout.enabled,
          ms |-> options.toolTimeout.durationMs,
          onToolTimeout |-> options.onToolTimeout]
    ELSE [enabled |-> DEFAULT_TOOL_TIMEOUT_ENABLED,
          ms |-> DEFAULT_TOOL_TIMEOUT,
          onToolTimeout |-> FALSE]

isTimeoutEnabled == globalTimeoutEnabled

\* A resolution that answers a tool without a policy from the defaults,
\* ignoring what the constructor and the setters stored.
getToolTimeoutConfig_Defaults(toolOptions) ==
  IF toolOptions.timeout.kind # "undefined"
    THEN IF toolOptions.timeout.kind = "number"
           THEN [enabled |-> TRUE, durationMs |-> toolOptions.timeout.durationMs]
           ELSE [enabled |-> toolOptions.timeout.enabled,
                 durationMs |-> toolOptions.timeout.durationMs]
    ELSE [enabled |-> DEFAULT_TOOL_TIMEOUT_ENABLED, durationMs |-> DEFAULT_TOOL_TIMEOUT]

getToolTimeoutConfig(toolOptions) ==
  IF toolOptions.timeout.kind # "undefined"
    THEN IF toolOptions.timeout.kind = "number"
           THEN [enabled |-> TRUE, durationMs |-> toolOptions.timeout.durationMs]
           ELSE [enabled |-> toolOptions.timeout.enabled,
                 durationMs |-> toolOptions.timeout.durationMs]
    ELSE [enabled |-> globalTimeoutEnabled, durationMs |-> globalTimeoutMs]

\* new ToolTimeoutError(toolName, timeoutMs).message
TimeoutErrorMessage(toolName, timeoutMs) ==
  "Tool \"" \o toolName \o "\" execution timed out after " \o ToString(timeoutMs) \o "ms"

\* executeWithTimeout's catch: an error that is a ToolTimeoutError is
\* rethrown as it is; for any other error the timer is cleared first.
ClearsTimerOnError(err) == ~err.isTimeoutError

\* The timer callback of executeWithTimeout, up to its reject(error): the
\* timeout update when streaming is enabled on the service, then the timeout
\* callback when one is held.
\* A timer callback that rejects without notifying the stream service.
TimerCallback_NoStreamNotice(S, toolName, timeoutMs) ==
  [s |-> S,
   out |-> IF onToolTimeout
             THEN <<Entry("onToolTimeout", "timeout", toolName,
                          ToString(timeoutMs), Undefined, "direct")>>
             ELSE <<>>]

TimerCallback(S, toolName, timeoutMs) ==
  LET r == IF S.enabled THEN timeoutToolExecution(S, toolName, timeoutMs)
           ELSE [s |-> S, out |-> <<>>]
  IN [s |-> r.s,
      out |-> r.out \o
              (IF onToolTimeout
                 THEN <<Entry("onToolTimeout", "timeout", toolName,
                              ToString(timeoutMs), Undefined, "direct")>>
                 ELSE <<>>)]

\* ============================ the tool wrapper built by ToolDiscoveryService
Inputs == {"in"}
ProgressContent == "step"

\* streamingEnabled, as captured when the wrapper starts.
StreamingEnabledFor(S, toolMetadata) == S.enabled /\ toolMetadata.streaming

\* The wrapper's gate: the body is raced against a deadline when timeouts are
\* enabled on the service and the configuration resolved for the tool is
\* enabled.
RacedAgainstDeadline(toolMetadata) ==
  /\ isTimeoutEnabled
  /\ getToolTimeoutConfig(toolMetadata).enabled

\* The wrapper's results for a timeout and for an error of the body.
TimeoutResult(durationMs) ==
  "Error: Tool execution timed out after " \o ToString(durationMs) \o "ms"
ErrorResult(err) == "Error: " \o err.message

Return(toolName, result) ==
  <<Entry("return", "return", toolName, result, Undefined, "direct")>>

\* A cancellation token is issued per execution when its body is raced
\* against a deadline; nothing in the sources issues or holds one.
createCancellationToken(raced) == IF raced THEN "active" ELSE "none"

NoResult == "(pending)"

\* The wrapper is invoked with an input that passed the schema: it runs up to
\* the point where the body is awaited.
Invoke(toolMetadata, input) ==
  /\ Len(execs) < MaxExec
  /\ LET S == StreamState
         streamingEnabled == StreamingEnabledFor(S, toolMetadata)
         st == IF streamingEnabled
                 THEN startToolExecution(S, toolMetadata.name, input)
                 ELSE [s |-> S, out |-> <<>>]
         raced == RacedAgainstDeadline(toolMetadata)
         durationMs == IF raced THEN getToolTimeoutConfig(toolMetadata).durationMs ELSE 0
         refused == raced /\ hasToolTimedOut(st.s, toolMetadata.name)
         result == IF refused THEN TimeoutResult(durationMs) ELSE NoResult
     IN /\ SetStreamState(st.s)
        /\ execs' = Append(execs,
             [tool |-> toolMetadata, input |-> input,
              streaming |-> streamingEnabled, raced |-> raced, dur |-> durationMs,
              timer |-> IF raced /\ ~refused THEN "armed" ELSE "none",
              body |-> IF refused THEN "notcalled" ELSE "running",
              pc |-> IF refused THEN "done" ELSE "running",
              outcome |-> IF refused THEN "refused" ELSE "none",
              settled |-> NoResult,
              ret |-> result,
              token |-> createCancellationToken(raced /\ ~refused),
              nprog |-> 0,
              trace |-> st.out \o
                        (IF refused THEN Return(toolMetadata.name, result) ELSE <<>>)])
  /\ UNCHANGED <<timeoutVars, cfgVars, discVars, memVars, otherVars>>

\* The body calls updateToolProgress with its tool's name.  A body whose
\* wrapper already returned on a timeout runs on and can still do so.
BodyProgress(i) ==
  /\ i \in 1..Len(execs)
  /\ execs[i].body = "running"
  /\ execs[i].nprog < MaxProgress
  /\ LET r == updateToolProgress(StreamState, execs[i].tool.name, ProgressContent)
     IN /\ SetStreamState(r.s)
        /\ execs' = [execs EXCEPT ![i].nprog = @ + 1,
                                  ![i].trace = @ \o r.out]
  /\ UNCHANGED <<timeoutVars, cfgVars, discVars, memVars, otherVars>>

\* A race that a settled promise can still win after the wrapper returned.
RaceOpen_Always(e) == TRUE

\* Promise.race([fn(), timeoutPromise]) takes the first settlement only: the
\* body's settlement counts while the wrapper has not returned.
RaceOpen(e) == e.pc = "running"

\* The body resolves.  While the race is open the wrapper goes on: the timer
\* is cleared, completion is reported and the result returned.  After the
\* race was settled by the timer the resolution is dropped.
BodyResolve(i, result) ==
  /\ i \in 1..Len(execs)
  /\ execs[i].body = "running"
  /\ LET e == execs[i]
         r == IF RaceOpen(e) /\ e.streaming
                THEN completeToolExecution(StreamState, e.tool.name, result)
                ELSE [s |-> StreamState, out |-> <<>>]
     IN /\ SetStreamState(r.s)
        /\ execs' = [execs EXCEPT ![i] =
             IF RaceOpen(e)
               THEN [e EXCEPT !.body = "resolved", !.pc = "done",
                              !.outcome = "result", !.ret = result,
                              !.settled = result,
                              !.timer = IF e.raced THEN "cleared" ELSE "none",
                              !.trace = @ \o r.out \o Return(e.tool.name, result)]
               ELSE [e EXCEPT !.body = "resolved", !.settled = result]]
  /\ UNCHANGED <<timeoutVars, cfgVars, discVars, memVars, otherVars>>

\* The body raises.  While the race is open: under a deadline, an error that
\* is a ToolTimeoutError takes the wrapper's timeout branch (the timer is not
\* cleared, no update is sent); any other error, and any error of a body
\* that is not raced, reaches the outer catch.
BodyRaise(i, err) ==
  /\ i \in 1..Len(execs)
  /\ execs[i].body = "running"
  /\ LET e == execs[i]
         asTimeout == e.raced /\ err.isTimeoutError
         r == IF RaceOpen(e) /\ ~asTimeout /\ e.streaming
                THEN errorToolExecution(StreamState, e.tool.name, err.message)
                ELSE [s |-> StreamState, out |-> <<>>]
         result == IF asTimeout THEN TimeoutResult(e.dur) ELSE ErrorResult(err)
     IN /\ SetStreamState(r.s)
        /\ execs' = [execs EXCEPT ![i] =
             IF RaceOpen(e)
               THEN [e EXCEPT !.body = "raised", !.pc = "done",
                              !.outcome = IF asTimeout THEN "timeoutError" ELSE "error",
                              !.ret = result,
                              !.settled = err.message,
                              !.timer = IF e.raced /\ ClearsTimerOnError(err)
                                          THEN "cleared" ELSE @,
                              !.trace = @ \o r.out \o Return(e.tool.name, result)]
               ELSE [e EXCEPT !.body = "raised", !.settled = err.message]]
  /\ UNCHANGED <<timeoutVars, cfgVars, discVars, memVars, otherVars>>

\* The deadline timer of an execution fires: the timer callback runs and
\* rejects the race; when the race was still open the wrapper returns the
\* timeout text.
TimerFire(i) ==
  /\ i \in 1..Len(execs)
  /\ execs[i].timer = "armed"
  /\ LET e == execs[i]
         r == TimerCallback(StreamState, e.tool.name, e.dur)
         result == TimeoutResult(e.dur)
     IN /\ SetStreamState(r.s)
        /\ execs' = [execs EXCEPT ![i] =
             IF e.pc = "running"
               THEN [e EXCEPT !.timer = "fired", !.pc = "done",
                              !.outcome = "deadline", !.ret = result,
                              !.trace = @ \o r.out \o Return(e.tool.name, result)]
               ELSE [e EXCEPT !.timer = "fired", !.trace = @ \o r.out]]
  /\ UNCHANGED <<timeoutVars, cfgVars, discVars, memVars, otherVars>>

\* The module options the stream service's constructor reads.
StreamOptionSet ==
  { [enableToolStreaming |-> en, onToolStream |-> cb] :
      en \in {Undefined, "true", "false"}, cb \in {Undefined, "A"} }

StreamConstructor(options) ==
  [enabled |-> IF options.enableToolStreaming = Undefined
                 THEN DEFAULT_TOOL_STREAMING_ENABLED
                 ELSE options.enableToolStreaming = "true",
   cb |-> options.onToolStream]

\* The parts of the state a specification does not use stay as they are here.
IdleCfg == setCalls = <<>> /\ lastConfig = <<>>
IdleDisc ==
  /\ component = <<>> /\ scanPos = 0 /\ tools = <<>>
  /\ scanDone = FALSE /\ scanThrew = FALSE
IdleMem ==
  /\ sessionMemory = <<>> /\ appended = <<>> /\ lastRead = <<>> /\ nAppends = 0
  /\ adapter = <<>>
IdleCoord ==
  /\ available = {} /\ agents = {} /\ initialized = FALSE /\ coordinatorAgent = 0
  /\ executors = <<>> /\ startup = "idle" /\ calls = <<>> /\ lastDelegation = <<>>
IdleAgents ==
  /\ agentProviders = <<>> /\ vectorStoreService = FALSE /\ agentPos = 0
  /\ agentInfos = <<>> /\ passDone = FALSE /\ passThrew = FALSE /\ agentPass = 0
IdleRag ==
  /\ ragOptions = <<>> /\ ragCall = <<>> /\ ragSaved = <<>> /\ nRag = 0
IdleSink == lastOp = <<>> /\ nOps = 0
IdleOpt == timeoutOptions = <<>>
IdleExtra == IdleRag /\ IdleSink /\ IdleOpt
IdleOther == IdleCoord /\ IdleAgents /\ IdleExtra
IdleStream ==
  /\ streamEnabled = DEFAULT_TOOL_STREAMING_ENABLED
  /\ callback = Undefined
  /\ streams = [n \in ToolNames |-> NoSubject]
  /\ nextSubject = 1
  /\ cleanups = [n \in ToolNames |-> 0]
  /\ throwing = {}
IdleTimeout ==
  /\ globalTimeoutEnabled = DEFAULT_TOOL_TIMEOUT_ENABLED
  /\ globalTimeoutMs = DEFAULT_TOOL_TIMEOUT
  /\ onToolTimeout = FALSE

InitServices ==
  /\ \E so \in StreamOptionSet :
       /\ streamEnabled = StreamConstructor(so).enabled
       /\ callback = StreamConstructor(so).cb
  /\ streams = [n \in ToolNames |-> NoSubject]
  /\ nextSubject = 1
  /\ cleanups = [n \in ToolNames |-> 0]
  /\ throwing \in SUBSET ({callback} \ {Undefined})
  /\ \E o \in TimeoutOptionSet :
       /\ timeoutOptions = <<o>>
       /\ globalTimeoutEnabled = TimeoutConstructor(o).enabled
       /\ globalTimeoutMs = TimeoutConstructor(o).ms
       /\ onToolTimeout = TimeoutConstructor(o).onToolTimeout
  /\ execs = <<>>

Init ==
  /\ InitServices /\ IdleCfg /\ IdleDisc /\ IdleMem
  /\ IdleCoord /\ IdleAgents /\ IdleRag /\ IdleSink

Next ==
  \/ \E t \in ToolSet, input \in Inputs : Invoke(t, input)
  \/ \E i \in 1..MaxExec : BodyProgress(i)
  \/ \E i \in 1..MaxExec, v \in Results : BodyResolve(i, v)
  \/ \E i \in 1..MaxExec, err \in BodyErrors : BodyRaise(i, err)
  \/ \E i \in 1..MaxExec : TimerFire(i)
  \/ \E n \in ToolNames : Cleanup(n)

Spec == Init /\ [][Next]_vars

\* ===================================== ToolTimeoutService: configuration
SetterValues == {0, 250}

SetCall(op, enabled, ms) == [op |-> op, enabled |-> enabled, ms |-> ms]

setTimeoutEnabled(enabled) ==
  /\ Len(setCalls) <= MaxSets
  /\ globalTimeoutEnabled' = enabled
  /\ setCalls' = Append(setCalls, SetCall("setTimeoutEnabled", enabled, 0))
  /\ UNCHANGED <<globalTimeoutMs, onToolTimeout, lastConfig>>
  /\ UNCHANGED <<streamVars, execs, discVars, memVars, otherVars>>

setGlobalTimeoutMs(timeoutMs) ==
  /\ Len(setCalls) <= MaxSets
  /\ globalTimeoutMs' = timeoutMs
  /\ setCalls' = Append(setCalls, SetCall("setGlobalTimeoutMs", FALSE, timeoutMs))
  /\ UNCHANGED <<globalTimeoutEnabled, onToolTimeout, lastConfig>>
  /\ UNCHANGED <<streamVars, execs, discVars, memVars, otherVars>>

\* A call of getToolTimeoutConfig, kept with the number of configuration
\* calls that preceded it.
CallGetToolTimeoutConfig(toolOptions) ==
  /\ lastConfig' = <<[tool |-> toolOptions, at |-> Len(setCalls),
                      result |-> getToolTimeoutConfig(toolOptions)]>>
  /\ UNCHANGED <<timeoutVars, setCalls>>
  /\ UNCHANGED <<streamVars, execs, discVars, memVars, otherVars>>

InitCfg ==
  /\ \E o \in TimeoutOptionSet :
       /\ globalTimeoutEnabled = TimeoutConstructor(o).enabled
       /\ globalTimeoutMs = TimeoutConstructor(o).ms
       /\ onToolTimeout = TimeoutConstructor(o).onToolTimeout
       /\ setCalls = <<SetCall("constructor", TimeoutConstructor(o).enabled,
                               TimeoutConstructor(o).ms)>>
  /\ lastConfig = <<>>
  /\ execs = <<>>
  /\ IdleStream /\ IdleDisc /\ IdleMem /\ IdleOther

NextCfg ==
  \/ \E b \in BOOLEAN : setTimeoutEnabled(b)
  \/ \E n \in SetterValues : setGlobalTimeoutMs(n)
  \/ \E t \in ToolSet : CallGetToolTimeoutConfig(t)

SpecCfg == InitCfg /\ [][NextCfg]_vars

\* ============================== ToolDiscoveryService.discoverToolsForProvider
\* A method of the scanned prototype: without tool metadata ("plain"), with
\* metadata from which tool(...) builds a tool ("tool"), or with metadata on
\* which tool(...) raises ("bad").
MethodKinds == {"plain", "tool", "bad"}
MethodName(k) == "m" \o ToString(k)

\* A provider instance: whether Object.getPrototypeOf gives a prototype, and
\* the prototype's methods in scan order.
ComponentSet ==
  { [hasPrototype |-> TRUE, methods |-> m] :
      m \in UNION { [1..n -> MethodKinds] : n \in 0..MaxMethods } }
  \cup { [hasPrototype |-> FALSE, methods |-> <<>>] }

\* A scan whose per-method catch is missing: the first failing construction
\* ends the scan.
ConstructionErrorHandling_Abort == "abort"

\* Where an error raised by tool(...) for one method ends up: in the catch
\* around the construction, which logs it, so that the scan goes on
\* ("continue").  The other places it could end up are the catch around the
\* whole scan ("abort": the tools found so far are returned) and the caller
\* ("throw").
ConstructionErrorHandling == "continue"

\* The callback of scanFromPrototype on the next method name.
ScanStep ==
  /\ ~scanDone
  /\ component.hasPrototype
  /\ scanPos <= Len(component.methods)
  /\ LET kind == component.methods[scanPos]
         handling == IF kind = "bad" THEN ConstructionErrorHandling ELSE "continue"
     IN /\ tools' = IF kind = "tool" THEN Append(tools, MethodName(scanPos)) ELSE tools
        /\ scanPos' = IF handling = "continue" THEN scanPos + 1
                      ELSE Len(component.methods) + 1
        /\ scanThrew' = (handling = "throw")
        /\ scanDone' = (handling = "throw")
  /\ UNCHANGED <<component>>
  /\ UNCHANGED <<streamVars, timeoutVars, cfgVars, execs, memVars, otherVars>>

\* return tools: at once for an instance without prototype, else when
\* scanFromPrototype has gone through the method names or was aborted.
ScanReturn ==
  /\ ~scanDone
  /\ ~component.hasPrototype \/ scanPos > Len(component.methods)
  /\ scanDone' = TRUE
  /\ UNCHANGED <<component, scanPos, tools, scanThrew>>
  /\ UNCHANGED <<streamVars, timeoutVars, cfgVars, execs, memVars, otherVars>>

InitDisc ==
  /\ component \in ComponentSet
  /\ scanPos = 1 /\ tools = <<>> /\ scanDone = FALSE /\ scanThrew = FALSE
  /\ execs = <<>>
  /\ IdleStream /\ IdleTimeout /\ IdleCfg /\ IdleMem /\ IdleOther

NextDisc == ScanStep \/ ScanReturn

SpecDisc == InitDisc /\ [][NextDisc]_vars

\* ============================================================ MemoryService
SessionKeys == {"default", "s1"}
SessionArgs == SessionKeys \cup {Undefined}
Texts == {"a", "b"}

\* sessionId: string = 'default'
SessionKey(sessionId) == IF sessionId = Undefined THEN "default" ELSE sessionId

NoEntry == [has |-> FALSE, msgs |-> <<>>]
HumanMessage(text) == [role |-> "human", content |-> text]
AIMessage(text) == [role |-> "ai", content |-> text]

\* getMessages: the Map after the call and the array returned.
getMessages(mem, sessionId) ==
  LET key == SessionKey(sessionId)
      mem1 == IF ~mem[key].has
                THEN [mem EXCEPT ![key] = [has |-> TRUE, msgs |-> <<>>]]
                ELSE mem
  IN [mem |-> mem1, messages |-> mem1[key].msgs]

\* An append that drops a message equal to the one being added.
addHumanMessage_Dedup(mem, text, sessionId) ==
  LET r == getMessages(mem, sessionId)
  IN [r.mem EXCEPT ![SessionKey(sessionId)].msgs =
        Append(SelectSeq(r.messages, LAMBDA m : m # HumanMessage(text)), HumanMessage(text))]

\* addHumanMessage and addAIMessage push onto the array getMessages returns,
\* which is the array the Map holds.
addHumanMessage(mem, text, sessionId) ==
  LET r == getMessages(mem, sessionId)
  IN [r.mem EXCEPT ![SessionKey(sessionId)].msgs = Append(r.messages, HumanMessage(text))]

\* An append that puts the AI message in front of the history.
addAIMessage_Prepend(mem, text, sessionId) ==
  LET r == getMessages(mem, sessionId)
  IN [r.mem EXCEPT ![SessionKey(sessionId)].msgs = <<AIMessage(text)>> \o r.messages]

addAIMessage(mem, text, sessionId) ==
  LET r == getMessages(mem, sessionId)
  IN [r.mem EXCEPT ![SessionKey(sessionId)].msgs = Append(r.messages, AIMessage(text))]

\* A clear that empties the whole Map before setting the session's entry.
clearMemory_All(mem, sessionId) ==
  [k \in DOMAIN mem |->
     IF k = SessionKey(sessionId) THEN [has |-> TRUE, msgs |-> <<>>] ELSE NoEntry]

clearMemory(mem, sessionId) ==
  [mem EXCEPT ![SessionKey(sessionId)] = [has |-> TRUE, msgs |-> <<>>]]

CallGetMessages(sessionId) ==
  /\ LET r == getMessages(sessionMemory, sessionId)
     IN /\ sessionMemory' = r.mem
        /\ lastRead' = <<[key |-> SessionKey(sessionId),
                          result |-> r.messages,
                          appended |-> appended[SessionKey(sessionId)],
                          before |-> sessionMemory[SessionKey(sessionId)].msgs,
                          after |-> r.mem[SessionKey(sessionId)].msgs]>>
  /\ UNCHANGED <<appended, nAppends, adapter>>
  /\ UNCHANGED <<streamVars, timeoutVars, cfgVars, execs, discVars, otherVars>>

CallAddHumanMessage(text, sessionId) ==
  /\ nAppends < MaxMsgs
  /\ sessionMemory' = addHumanMessage(sessionMemory, text, sessionId)
  /\ appended' = [appended EXCEPT ![SessionKey(sessionId)] = Append(@, HumanMessage(text))]
  /\ nAppends' = nAppends + 1
  /\ UNCHANGED <<lastRead, adapter>>
  /\ UNCHANGED <<streamVars, timeoutVars, cfgVars, execs, discVars, otherVars>>

CallAddAIMessage(text, sessionId) ==
  /\ nAppends < MaxMsgs
  /\ sessionMemory' = addAIMessage(sessionMemory, text, sessionId)
  /\ appended' = [appended EXCEPT ![SessionKey(sessionId)] = Append(@, AIMessage(text))]
  /\ nAppends' = nAppends + 1
  /\ UNCHANGED <<lastRead, adapter>>
  /\ UNCHANGED <<streamVars, timeoutVars, cfgVars, execs, discVars, otherVars>>

CallClearMemory(sessionId) ==
  /\ sessionMemory' = clearMemory(sessionMemory, sessionId)
  /\ appended' = [appended EXCEPT ![SessionKey(sessionId)] = <<>>]
  /\ UNCHANGED <<lastRead, nAppends, adapter>>
  /\ UNCHANGED <<streamVars, timeoutVars, cfgVars, execs, discVars, otherVars>>

\* typeof v === 'string', for the values saveContext is handed.
IsString(v) == v # Undefined

\* An adapter whose constructor leaves its own chat history empty.
SessionMemoryAdapter_NoPreload(mem, sessionId) ==
  [mem |-> getMessages(mem, sessionId).mem,
   adapter |-> [sessionId |-> SessionKey(sessionId), chatHistory |-> <<>>]]

\* new SessionMemoryAdapter(memoryService, sessionId): the Map after the
\* constructor's getMessages call, and the adapter with its own chat history
\* filled from the messages found.
SessionMemoryAdapter(mem, sessionId) ==
  LET r == getMessages(mem, sessionId)
  IN [mem |-> r.mem,
      adapter |-> [sessionId |-> SessionKey(sessionId), chatHistory |-> r.messages]]

getChatMemoryForSession(mem, sessionId) == SessionMemoryAdapter(mem, sessionId)

\* adapter.loadMemoryVariables(): { chat_history: the adapter's own history }.
loadMemoryVariables(ad) == ad.chatHistory

\* adapter.saveContext(inputValues, outputValues), given inputValues[inputKey]
\* and outputValues[outputKey]: the parent class adds the exchange to the
\* adapter's own history, then the strings among the two are appended to the
\* store under the adapter's session.
saveContext(mem, ad, input, output) ==
  LET mem1 == IF IsString(input) THEN addHumanMessage(mem, input, ad.sessionId) ELSE mem
      mem2 == IF IsString(output) THEN addAIMessage(mem1, output, ad.sessionId) ELSE mem1
  IN [mem |-> mem2,
      adapter |-> [ad EXCEPT !.chatHistory =
                     @ \o <<HumanMessage(input), AIMessage(output)>>]]

ContextValues == Texts \cup {Undefined}

CallGetChatMemoryForSession(sessionId) ==
  /\ LET r == getChatMemoryForSession(sessionMemory, sessionId)
     IN /\ sessionMemory' = r.mem
        /\ adapter' = <<r.adapter>>
  /\ UNCHANGED <<appended, lastRead, nAppends>>
  /\ UNCHANGED <<streamVars, timeoutVars, cfgVars, execs, discVars, otherVars>>

CallSaveContext(input, output) ==
  /\ Len(adapter) = 1
  /\ nAppends + 2 <= MaxMsgs
  /\ LET r == saveContext(sessionMemory, adapter[1], input, output)
         key == adapter[1].sessionId
     IN /\ sessionMemory' = r.mem
        /\ adapter' = <<r.adapter>>
        /\ appended' = [appended EXCEPT ![key] =
                          @ \o (IF IsString(input) THEN <<HumanMessage(input)>> ELSE <<>>)
                            \o (IF IsString(output) THEN <<AIMessage(output)>> ELSE <<>>)]
  /\ nAppends' = nAppends + 2
  /\ UNCHANGED lastRead
  /\ UNCHANGED <<streamVars, timeoutVars, cfgVars, execs, discVars, otherVars>>

InitMem ==
  /\ sessionMemory = [k \in SessionKeys |-> NoEntry]
  /\ appended = [k \in SessionKeys |-> <<>>]
  /\ lastRead = <<>>
  /\ nAppends = 0
  /\ adapter = <<>>
  /\ execs = <<>>
  /\ IdleStream /\ IdleTimeout /\ IdleCfg /\ IdleDisc /\ IdleOther

NextMem ==
  \/ \E sid \in SessionArgs : CallGetMessages(sid)
  \/ \E text \in Texts, sid \in SessionArgs : CallAddHumanMessage(text, sid)
  \/ \E text \in Texts, sid \in SessionArgs : CallAddAIMessage(text, sid)
  \/ \E sid \in SessionArgs : CallClearMemory(sid)
  \/ \E sid \in SessionArgs : CallGetChatMemoryForSession(sid)
  \/ \E input \in ContextValues, output \in ContextValues : CallSaveContext(input, output)

SpecMem == InitMem /\ [][NextMem]_vars

\* ======================================================= CoordinatorService
AgentNames == {"alpha", "beta"}
Messages == {"a", "b"}
Outputs == {"r"}
ExecutorErrors == {"boom"}

\* The chunks of the executor's streamLog: the first op of each, or no op.
\* The model's tokens are the string values added under /logs/ChatOpenAI.
ChatOpenAIPath == "/logs/ChatOpenAI/streamed_output_str/-"
PathSet == {ChatOpenAIPath, "/streamed_output/-"}
Chunk(hasOps, op, path, isString, value) ==
  [hasOps |-> hasOps, op |-> op, path |-> path, isString |-> isString, value |-> value]
ChunkSet ==
  { Chunk(TRUE, "add", ChatOpenAIPath, TRUE, "x"),
    Chunk(TRUE, "add", ChatOpenAIPath, TRUE, "y"),
    Chunk(TRUE, "add", ChatOpenAIPath, TRUE, ""),
    Chunk(TRUE, "add", "/streamed_output/-", TRUE, "x"),
    Chunk(TRUE, "replace", ChatOpenAIPath, TRUE, "x"),
    Chunk(TRUE, "add", ChatOpenAIPath, FALSE, "x"),
    Chunk(FALSE, "add", ChatOpenAIPath, TRUE, "x") }

\* addOp.path.startsWith('/logs/ChatOpenAI'), on the paths of PathSet.
StartsWithLogsChatOpenAI(path) == path = ChatOpenAIPath

\* A chunk that carries a token of the coordinator's model.
IsModelToken(chunk) ==
  /\ chunk.hasOps /\ chunk.op = "add"
  /\ StartsWithLogsChatOpenAI(chunk.path)
  /\ chunk.isString

\* A loop that forwards empty tokens too.
IsForwardedToken_AnyLength(chunk) ==
  /\ chunk.hasOps /\ chunk.op = "add"
  /\ StartsWithLogsChatOpenAI(chunk.path)
  /\ chunk.isString

\* The condition under which the loop of processMessageStreaming takes a
\* chunk's first op for a token.
IsForwardedToken(chunk) ==
  /\ chunk.hasOps /\ chunk.op = "add"
  /\ StartsWithLogsChatOpenAI(chunk.path)
  /\ chunk.isString
  /\ chunk.value # ""

\* A processMessage and a startup timer that do not run discovery.
DiscoveredAgents_Skipped == agents

\* discoverAndInitializeAgents, by its effect on the registry.
DiscoveredAgents == agents \cup available

InitializationError == "Failed to initialize coordinator agent"
ProcessMessageError(m) == "Error processing message: " \o m
\* A streaming catch that resolves to the text instead of wrapping the error.
StreamingError_Unwrapped(m) == m

StreamingError(m) == "Error processing streaming message: " \o m

\* A func without its try/catch: the executor's error is what comes out.
DelegationFunc_NoCatch(agent, settles) == settles.value

\* The func of the delegation tool createAgentTools builds for an agent, given
\* how the agent's executor settles.
DelegationFunc(agent, settles) ==
  IF settles.ok THEN settles.value
  ELSE "Error with " \o agent \o ": " \o settles.value

SettleSet ==
  { [ok |-> TRUE, value |-> o] : o \in Outputs }
    \cup { [ok |-> FALSE, value |-> m] : m \in ExecutorErrors }

\* The executor initialize builds, with options.coordinatorUseMemory unset (the
\* default): AgentExecutor.fromAgentAndTools gets memory undefined, and the
\* executor holds a memory only once setupSessionMemory assigns one.
NewExecutor(agentSet) == [memory |-> <<>>, tools |-> agentSet]

\* setupSessionMemory: the store after the adapter's constructor, the executors
\* after the adapter is assigned to the current executor, and the history
\* loaded from the adapter.
setupSessionMemory(mem, execSeq, current, sessionId) ==
  LET r == getChatMemoryForSession(mem, sessionId)
  IN [mem |-> r.mem,
      executors |-> IF current # 0
                      THEN [execSeq EXCEPT ![current].memory = <<r.adapter>>]
                      ELSE execSeq,
      chat_history |-> loadMemoryVariables(r.adapter)]

NewCall(message, streaming, onToken, sessionId) ==
  [message |-> message, streaming |-> streaming, onToken |-> onToken,
   sessionId |-> sessionId, pc |-> "initialize", snapshot |-> {},
   exec |-> 0, chat_history |-> <<>>, invoked |-> FALSE, supplied |-> <<>>,
   nchunks |-> 0, produced |-> <<>>, forwarded |-> <<>>, fullResponse |-> "",
   ndeleg |-> 0, outcome |-> "none", ret |-> "", error |-> "",
   onDemand |-> FALSE, canRegister |-> available # {}, failure |-> "",
   after |-> { j \in 1..Len(calls) : calls[j].pc = "done" }]

\* A rejection that comes out as an empty success.
Reject_EmptySuccess(c, message) ==
  [c EXCEPT !.pc = "done", !.outcome = "ok", !.error = message]

Reject(c, message) == [c EXCEPT !.pc = "done", !.outcome = "rejected", !.error = message]
Resolve(c, response) == [c EXCEPT !.pc = "done", !.outcome = "ok", !.ret = response]

coordFrame == UNCHANGED <<streamVars, timeoutVars, cfgVars, execs, discVars,
                          appended, lastRead, nAppends, adapter, agentVars,
                          extraVars>>

\* A provider finishes registering with the container.
ProviderRegisters(a) ==
  /\ a \notin available
  /\ available' = available \cup {a}
  /\ UNCHANGED <<agents, initialized, coordinatorAgent, executors, startup, calls,
                 lastDelegation, sessionMemory>>
  /\ coordFrame

\* The timer of onModuleInit fires: discovery, then initialize up to its await.
StartupFire ==
  /\ startup = "pending"
  /\ agents' = DiscoveredAgents
  /\ startup' = IF agents' = {} THEN "done" ELSE "building"
  /\ UNCHANGED <<available, initialized, coordinatorAgent, executors, calls,
                 lastDelegation, sessionMemory>>
  /\ coordFrame

\* initialize, after createOpenAIFunctionsAgent, in the timer's callback.
StartupBuilt ==
  /\ startup = "building"
  /\ executors' = Append(executors, NewExecutor(agents))
  /\ coordinatorAgent' = Len(executors) + 1
  /\ initialized' = TRUE
  /\ startup' = "done"
  /\ UNCHANGED <<available, agents, calls, lastDelegation, sessionMemory>>
  /\ coordFrame

\* processMessage up to its first await: on-demand discovery when the
\* coordinator is not initialized, setupSessionMemory otherwise.
ProcessMessage(message, streaming, onToken, sessionId) ==
  /\ LET c == NewCall(message, streaming, onToken, sessionId)
     IN IF ~initialized \/ coordinatorAgent = 0
          THEN /\ agents' = DiscoveredAgents
               /\ calls' = Append(calls, [c EXCEPT !.onDemand = TRUE])
               /\ UNCHANGED <<executors, sessionMemory>>
          ELSE LET r == setupSessionMemory(sessionMemory, executors,
                                           coordinatorAgent, sessionId)
               IN /\ sessionMemory' = r.mem
                  /\ executors' = r.executors
                  /\ calls' = Append(calls, [c EXCEPT !.pc = "setup",
                                                      !.chat_history = r.chat_history])
                  /\ UNCHANGED agents
  /\ UNCHANGED <<available, initialized, coordinatorAgent, startup, lastDelegation>>
  /\ coordFrame

\* initialize() called by processMessage, up to its await.  With no agent it
\* returns at once and processMessage makes its check: it throws unless the
\* coordinator was initialized meanwhile.
Initialize(i) ==
  /\ i \in 1..Len(calls) /\ calls[i].pc = "initialize"
  /\ IF agents # {}
       THEN /\ calls' = [calls EXCEPT ![i] = [@ EXCEPT !.pc = "building",
                                                       !.snapshot = agents]]
            /\ UNCHANGED <<executors, sessionMemory>>
       ELSE IF ~initialized \/ coordinatorAgent = 0
              THEN /\ calls' = [calls EXCEPT ![i] = Reject(@, InitializationError)]
                   /\ UNCHANGED <<executors, sessionMemory>>
              ELSE LET r == setupSessionMemory(sessionMemory, executors,
                                               coordinatorAgent, calls[i].sessionId)
                   IN /\ sessionMemory' = r.mem
                      /\ executors' = r.executors
                      /\ calls' = [calls EXCEPT ![i] =
                                     [@ EXCEPT !.pc = "setup",
                                               !.chat_history = r.chat_history]]
  /\ UNCHANGED <<available, agents, initialized, coordinatorAgent, startup,
                 lastDelegation>>
  /\ coordFrame

\* initialize() called by processMessage, after createOpenAIFunctionsAgent:
\* the executor is built from the agents read before the await and becomes the
\* coordinator's; processMessage's check passes and setupSessionMemory runs.
Built(i) ==
  /\ i \in 1..Len(calls) /\ calls[i].pc = "building"
  /\ LET built == Append(executors, NewExecutor(calls[i].snapshot))
         r == setupSessionMemory(sessionMemory, built, Len(built), calls[i].sessionId)
     IN /\ coordinatorAgent' = Len(built)
        /\ initialized' = TRUE
        /\ sessionMemory' = r.mem
        /\ executors' = r.executors
        /\ calls' = [calls EXCEPT ![i] = [@ EXCEPT !.pc = "setup",
                                                   !.chat_history = r.chat_history]]
  /\ UNCHANGED <<available, agents, startup, lastDelegation>>
  /\ coordFrame

\* Non-streaming path, after setupSessionMemory: coordinatorAgent.invoke is
\* called on the current executor, which reads the history of the memory it
\* holds at that moment.
InvokeBegin(i) ==
  /\ i \in 1..Len(calls) /\ calls[i].pc = "setup" /\ ~calls[i].streaming
  /\ LET memory == executors[coordinatorAgent].memory
     IN calls' = [calls EXCEPT ![i] =
                    [@ EXCEPT !.pc = "model", !.exec = coordinatorAgent,
                              !.invoked = TRUE,
                              !.supplied = IF memory # <<>>
                                             THEN <<loadMemoryVariables(memory[1])>>
                                             ELSE <<>>]]
  /\ UNCHANGED <<available, agents, initialized, coordinatorAgent, executors,
                 startup, lastDelegation, sessionMemory>>
  /\ coordFrame

\* The executor's invoke resolves: it saves the exchange through the memory it
\* holds, and processMessage returns the output.  The coordinator's prompt
\* has a chat_history placeholder, so a run that was supplied no history does
\* not resolve.
InvokeResolve(i, output) ==
  /\ i \in 1..Len(calls) /\ calls[i].pc = "model"
  /\ calls[i].supplied # <<>>
  /\ LET memory == executors[calls[i].exec].memory
     IN IF memory # <<>>
          THEN LET r == saveContext(sessionMemory, memory[1], calls[i].message, output)
               IN /\ sessionMemory' = r.mem
                  /\ executors' = [executors EXCEPT ![calls[i].exec].memory = <<r.adapter>>]
          ELSE UNCHANGED <<sessionMemory, executors>>
  /\ calls' = [calls EXCEPT ![i] = Resolve(@, output)]
  /\ UNCHANGED <<available, agents, initialized, coordinatorAgent, startup,
                 lastDelegation>>
  /\ coordFrame

\* Streaming path, after the first setupSessionMemory: processMessageStreaming
\* runs setupSessionMemory again.
StreamSetup(i) ==
  /\ i \in 1..Len(calls) /\ calls[i].pc = "setup" /\ calls[i].streaming
  /\ LET r == setupSessionMemory(sessionMemory, executors, coordinatorAgent,
                                 calls[i].sessionId)
     IN /\ sessionMemory' = r.mem
        /\ executors' = r.executors
        /\ calls' = [calls EXCEPT ![i] = [@ EXCEPT !.pc = "setup2",
                                                   !.chat_history = r.chat_history]]
  /\ UNCHANGED <<available, agents, initialized, coordinatorAgent, startup,
                 lastDelegation>>
  /\ coordFrame

\* streamLog({input, chat_history}) on the current executor.
StreamBegin(i) ==
  /\ i \in 1..Len(calls) /\ calls[i].pc = "setup2"
  /\ calls' = [calls EXCEPT ![i] =
                 [@ EXCEPT !.pc = "stream", !.exec = coordinatorAgent,
                           !.invoked = TRUE,
                           !.supplied = <<calls[i].chat_history>>]]
  /\ UNCHANGED <<available, agents, initialized, coordinatorAgent, executors,
                 startup, lastDelegation, sessionMemory>>
  /\ coordFrame

\* One iteration of the for-await loop.
StreamChunk(i, chunk) ==
  /\ i \in 1..Len(calls) /\ calls[i].pc = "stream"
  /\ calls[i].nchunks < MaxChunks
  /\ calls' = [calls EXCEPT ![i] =
       [@ EXCEPT !.nchunks = @ + 1,
                 !.produced = IF IsModelToken(chunk) THEN Append(@, chunk.value) ELSE @,
                 !.fullResponse = IF IsForwardedToken(chunk) THEN @ \o chunk.value ELSE @,
                 !.forwarded = IF IsForwardedToken(chunk) /\ calls[i].onToken
                                 THEN Append(@, chunk.value) ELSE @]]
  /\ UNCHANGED <<available, agents, initialized, coordinatorAgent, executors,
                 startup, lastDelegation, sessionMemory>>
  /\ coordFrame

\* The stream ends: the exchange is saved through the memory the coordinator's
\* current executor holds, if it holds one, and fullResponse is returned.
StreamEnd(i) ==
  /\ i \in 1..Len(calls) /\ calls[i].pc = "stream"
  /\ LET memory == executors[coordinatorAgent].memory
     IN IF memory # <<>>
          THEN LET r == saveContext(sessionMemory, memory[1], calls[i].message,
                                    calls[i].fullResponse)
               IN /\ sessionMemory' = r.mem
                  /\ executors' = [executors EXCEPT ![coordinatorAgent].memory = <<r.adapter>>]
          ELSE UNCHANGED <<sessionMemory, executors>>
  /\ calls' = [calls EXCEPT ![i] = Resolve(@, @.fullResponse)]
  /\ UNCHANGED <<available, agents, initialized, coordinatorAgent, startup,
                 lastDelegation>>
  /\ coordFrame

\* A manual save placed in a finally block: it runs when the stream throws
\* as well.
StreamSavePlace_Finally == "finally"

\* Where processMessageStreaming saves the exchange: inside its try block,
\* after the for-await loop, so that an error of streamLog or of the loop
\* goes to the catch without reaching it.
StreamSavePlace == "try"

\* The executor's invoke rejects, or its stream throws, with message m.
ExecutorFails(i, m) ==
  /\ i \in 1..Len(calls) /\ calls[i].pc \in {"model", "stream"}
  /\ calls' = [calls EXCEPT ![i] =
                 Reject([@ EXCEPT !.failure = m],
                        IF @.streaming
                          THEN ProcessMessageError(StreamingError(m))
                          ELSE ProcessMessageError(m))]
  /\ LET memory == executors[coordinatorAgent].memory
     IN IF calls[i].streaming /\ StreamSavePlace = "finally" /\ memory # <<>>
          THEN LET r == saveContext(sessionMemory, memory[1], calls[i].message,
                                    calls[i].fullResponse)
               IN /\ sessionMemory' = r.mem
                  /\ executors' = [executors EXCEPT ![coordinatorAgent].memory = <<r.adapter>>]
          ELSE UNCHANGED <<sessionMemory, executors>>
  /\ UNCHANGED <<available, agents, initialized, coordinatorAgent,
                 startup, lastDelegation>>
  /\ coordFrame

\* While it runs, the executor calls the delegation tool of one of its agents.
Delegate(i, agent, settles) ==
  /\ i \in 1..Len(calls) /\ calls[i].pc \in {"model", "stream"}
  /\ calls[i].ndeleg < MaxDelegations
  /\ agent \in executors[calls[i].exec].tools
  /\ lastDelegation' = <<[call |-> i, agent |-> agent, settles |-> settles,
                          result |-> DelegationFunc(agent, settles)]>>
  /\ calls' = [calls EXCEPT ![i].ndeleg = @ + 1]
  /\ UNCHANGED <<available, agents, initialized, coordinatorAgent, executors,
                 startup, sessionMemory>>
  /\ coordFrame

\* Interleaved calls: up to MaxCalls calls, the startup timer and a provider
\* that may register late; the streams carry plain tokens only.
CoordAgents == {"alpha"}
CoordChunks == { Chunk(TRUE, "add", ChatOpenAIPath, TRUE, "x") }

InitCoord ==
  /\ available \in SUBSET CoordAgents
  /\ agents = {} /\ initialized = FALSE /\ coordinatorAgent = 0
  /\ executors = <<>> /\ startup = "pending" /\ calls = <<>>
  /\ lastDelegation = <<>>
  /\ sessionMemory = [k \in SessionKeys |-> NoEntry]
  /\ appended = <<>> /\ lastRead = <<>> /\ nAppends = 0 /\ adapter = <<>>
  /\ execs = <<>>
  /\ IdleStream /\ IdleTimeout /\ IdleCfg /\ IdleDisc /\ IdleAgents /\ IdleExtra

NextCoord ==
  \/ \E a \in CoordAgents : ProviderRegisters(a)
  \/ StartupFire
  \/ StartupBuilt
  \/ \E message \in Messages, streaming \in BOOLEAN, sid \in {Undefined, "s1"} :
       /\ Len(calls) < MaxCalls
       /\ ProcessMessage(message, streaming, FALSE, sid)
  \/ \E i \in 1..MaxCalls : Initialize(i)
  \/ \E i \in 1..MaxCalls : Built(i)
  \/ \E i \in 1..MaxCalls : InvokeBegin(i)
  \/ \E i \in 1..MaxCalls, output \in Outputs : InvokeResolve(i, output)
  \/ \E i \in 1..MaxCalls : StreamSetup(i)
  \/ \E i \in 1..MaxCalls : StreamBegin(i)
  \/ \E i \in 1..MaxCalls, chunk \in CoordChunks : StreamChunk(i, chunk)
  \/ \E i \in 1..MaxCalls : StreamEnd(i)
  \/ \E i \in 1..MaxCalls, m \in ExecutorErrors : ExecutorFails(i, m)

SpecCoord == InitCoord /\ [][NextCoord]_vars

\* One processMessage call at a time, made before the startup timer has
\* fired: every kind of chunk, and the delegation tools.
InitTurn ==
  /\ available = AgentNames
  /\ agents = {} /\ initialized = FALSE /\ coordinatorAgent = 0
  /\ executors = <<>> /\ startup = "pending" /\ calls = <<>>
  /\ lastDelegation = <<>>
  /\ sessionMemory = [k \in SessionKeys |-> NoEntry]
  /\ appended = <<>> /\ lastRead = <<>> /\ nAppends = 0 /\ adapter = <<>>
  /\ execs = <<>>
  /\ IdleStream /\ IdleTimeout /\ IdleCfg /\ IdleDisc /\ IdleAgents /\ IdleExtra

NextTurn ==
  \/ \E message \in Messages, streaming \in BOOLEAN, onToken \in BOOLEAN,
        sid \in {Undefined, "s1"} :
       /\ Len(calls) < MaxTurns
       /\ \A j \in 1..Len(calls) : calls[j].pc = "done"
       /\ onToken => streaming
       /\ ProcessMessage(message, streaming, onToken, sid)
  \/ \E i \in 1..MaxTurns : Initialize(i)
  \/ \E i \in 1..MaxTurns : Built(i)
  \/ \E i \in 1..MaxTurns : InvokeBegin(i)
  \/ \E i \in 1..MaxTurns, output \in Outputs : InvokeResolve(i, output)
  \/ \E i \in 1..MaxTurns : StreamSetup(i)
  \/ \E i \in 1..MaxTurns : StreamBegin(i)
  \/ \E i \in 1..MaxTurns, chunk \in ChunkSet : StreamChunk(i, chunk)
  \/ \E i \in 1..MaxTurns : StreamEnd(i)
  \/ \E i \in 1..MaxTurns, m \in ExecutorErrors : ExecutorFails(i, m)
  \/ \E i \in 1..MaxTurns, a \in AgentNames, settles \in SettleSet : Delegate(i, a, settles)

SpecTurn == InitTurn /\ [][NextTurn]_vars

\* ==================================================== AgentDiscoveryService
\* A retrieval option object: absent, or present with its enabled flag.
NoRetrieval == [present |-> FALSE, enabled |-> FALSE]
Retrieval(enabled) == [present |-> TRUE, enabled |-> enabled]

\* modelType of an agent declaration, and whether a custom declaration
\* carries its modelProvider.
ModelChoices ==
  { [modelType |-> Undefined, modelProvider |-> FALSE],
    [modelType |-> "custom", modelProvider |-> TRUE],
    [modelType |-> "custom", modelProvider |-> FALSE],
    [modelType |-> "unsupported", modelProvider |-> FALSE] }

RetrievalChoices ==
  { [decorator |-> NoRetrieval, option |-> NoRetrieval],
    [decorator |-> NoRetrieval, option |-> Retrieval(TRUE)],
    [decorator |-> Retrieval(FALSE), option |-> Retrieval(TRUE)],
    [decorator |-> Retrieval(TRUE), option |-> NoRetrieval] }

\* The wrappers getProviders() returns: without an instance, without agent
\* metadata, or an agent class with its declaration.
ProviderSet ==
  { [instance |-> FALSE, agentMetadata |-> FALSE, name |-> "alpha", model |-> m,
     ntools |-> 0, retrieval |-> r, useMemory |-> FALSE] :
      m \in {[modelType |-> Undefined, modelProvider |-> FALSE]},
      r \in {[decorator |-> NoRetrieval, option |-> NoRetrieval]} }
  \cup
  { [instance |-> TRUE, agentMetadata |-> FALSE, name |-> "alpha", model |-> m,
     ntools |-> 0, retrieval |-> r, useMemory |-> FALSE] :
      m \in {[modelType |-> Undefined, modelProvider |-> FALSE]},
      r \in {[decorator |-> NoRetrieval, option |-> NoRetrieval]} }
  \cup
  { [instance |-> TRUE, agentMetadata |-> TRUE, name |-> n, model |-> m,
     ntools |-> t, retrieval |-> r, useMemory |-> u] :
      n \in AgentNames, m \in ModelChoices, t \in 0..1, r \in RetrievalChoices,
      u \in BOOLEAN }

\* retrievalOptions || agentMetadata.retrieval
MergedRetrieval(provider) ==
  IF provider.retrieval.decorator.present THEN provider.retrieval.decorator
  ELSE provider.retrieval.option

\* createModelInstance: whether it returns a model or throws.
createModelInstance(model) ==
  CASE model.modelType = Undefined -> TRUE
    [] model.modelType \in {"openai", "anthropic", "mistral", "llama"} -> TRUE
    [] model.modelType = "custom" -> model.modelProvider
    [] OTHER -> FALSE

\* A prompt that always carries both placeholders.
AgentPrompt_AllPlaceholders(useMemory, retrievalEnabled) ==
  <<"system", "chat_history", "human", "context", "agent_scratchpad">>

\* The parts of the prompt initializeAgent assembles.
AgentPrompt(useMemory, retrievalEnabled) ==
  <<"system">>
    \o (IF useMemory THEN <<"chat_history">> ELSE <<>>)
    \o <<"human">>
    \o (IF retrievalEnabled THEN <<"context">> ELSE <<>>)
    \o <<"agent_scratchpad">>

\* initializeAgent: [ok, info], info being the AgentInfo registered; id is the
\* identity of the AgentExecutor this call makes.
initializeAgent(provider, retrieval, vectorStore, id) ==
  IF ~createModelInstance(provider.model)
    THEN [ok |-> FALSE, info |-> <<>>]
    ELSE [ok |-> TRUE,
          info |-> <<[name |-> provider.name,
                      executor |-> id,
                      prompt |-> AgentPrompt(provider.useMemory, retrieval.enabled),
                      ntools |-> provider.ntools
                                   + (IF retrieval.enabled /\ vectorStore THEN 1 ELSE 0),
                      memory |-> provider.useMemory,
                      wrapped |-> retrieval.enabled /\ vectorStore,
                      useMemory |-> provider.useMemory,
                      retrievalEnabled |-> retrieval.enabled]>>]

\* A pass whose per-agent catch is missing: an agent's failure ends the pass
\* and reaches the caller.
AgentErrorHandling_Throw == "throw"

\* Where an error of initializeAgent ends up: in the catch inside the loop of
\* discoverAndInitializeAgents, which logs it, so that the loop goes on
\* ("continue"); without it the error would leave the pass ("throw").
AgentErrorHandling == "continue"

agentFrame == UNCHANGED <<streamVars, timeoutVars, cfgVars, execs, discVars,
                          memVars, coordVars, extraVars>>

\* One iteration of the loop over the providers.
AgentScanStep ==
  /\ ~passDone
  /\ agentPos <= Len(agentProviders)
  /\ LET provider == agentProviders[agentPos]
         retrieval == MergedRetrieval(provider)
         considered == /\ provider.instance /\ provider.agentMetadata
                       /\ (provider.ntools > 0 \/ retrieval.enabled)
         r == initializeAgent(provider, retrieval, vectorStoreService,
                              <<agentPass, agentPos>>)
         handling == IF considered /\ ~r.ok THEN AgentErrorHandling ELSE "continue"
     IN /\ agentInfos' = IF considered /\ r.ok
                          THEN [agentInfos EXCEPT ![provider.name] = r.info]
                          ELSE agentInfos
        /\ agentPos' = agentPos + 1
        /\ passThrew' = (handling = "throw")
        /\ passDone' = (handling = "throw")
  /\ UNCHANGED <<agentProviders, vectorStoreService, agentPass>>
  /\ agentFrame

\* The loop is over: the pass returns this.agents.
AgentScanReturn ==
  /\ ~passDone
  /\ agentPos > Len(agentProviders)
  /\ passDone' = TRUE
  /\ UNCHANGED <<agentProviders, vectorStoreService, agentPos, agentInfos, passThrew,
                 agentPass>>
  /\ agentFrame

\* discoverAndInitializeAgents is called again: by the coordinator's startup
\* timer, or by a processMessage that finds the coordinator uninitialized.
AgentScanAgain ==
  /\ passDone
  /\ agentPass < MaxPasses
  /\ agentPass' = agentPass + 1
  /\ agentPos' = 1
  /\ passDone' = FALSE
  /\ UNCHANGED <<agentProviders, vectorStoreService, agentInfos, passThrew>>
  /\ agentFrame

InitAgents ==
  /\ agentProviders \in UNION { [1..n -> ProviderSet] : n \in 0..MaxProviders }
  /\ vectorStoreService \in BOOLEAN
  /\ agentPos = 1
  /\ agentInfos = [n \in AgentNames |-> <<>>]
  /\ passDone = FALSE /\ passThrew = FALSE /\ agentPass = 1
  /\ execs = <<>>
  /\ IdleStream /\ IdleTimeout /\ IdleCfg /\ IdleDisc /\ IdleMem /\ IdleCoord
  /\ IdleExtra

NextAgents == AgentScanStep \/ AgentScanReturn \/ AgentScanAgain

SpecAgents == InitAgents /\ [][NextAgents]_vars

\* ============================== ToolStreamService: its methods, called freely
StreamTools == {"echo", "slow"}
Callbacks == {"A", "B"}
UpdateTypes == {"start", "progress", "complete", "error", "timeout"}

\* A setCallback that stores the callback without subscribing it to the
\* Subjects that exist.
setCallback_NoResubscribe(S, cb) ==
  [S EXCEPT !.cb = cb, !.enabled = TRUE]

\* setCallback: the callback is stored, streaming is switched on, and every
\* Subject of the map gets one more forwarding subscription.
setCallback(S, cb) ==
  [S EXCEPT !.cb = cb, !.enabled = TRUE,
            !.streams = [n \in DOMAIN S.streams |->
                           IF S.streams[n].id # 0
                             THEN [S.streams[n] EXCEPT !.subs = @ + 1]
                             ELSE S.streams[n]]]

setStreamingEnabled(S, enabled) == [S EXCEPT !.enabled = enabled]

\* The method that publishes an update of the given type.
PublishMethod(S, type, toolName) ==
  CASE type = "start" -> startToolExecution(S, toolName, "in")
    [] type = "progress" -> updateToolProgress(S, toolName, ProgressContent)
    [] type = "complete" -> completeToolExecution(S, toolName, "hi")
    [] type = "error" -> errorToolExecution(S, toolName, "bad")
    [] OTHER -> timeoutToolExecution(S, toolName, 50)

sinkFrame == UNCHANGED <<timeoutVars, cfgVars, execs, discVars, memVars, coordVars,
                         agentVars, ragVars, optVars>>

\* A call of a method: the service it was made on, the Subject the map held
\* for the tool before and holds after, and the updates put out.
Op(op, type, toolName, S, S1, arg, out) ==
  [op |-> op, type |-> type, toolName |-> toolName, enabled |-> S.enabled,
   cb |-> S.cb,
   subject |-> IF toolName \in DOMAIN S.streams THEN S.streams[toolName] ELSE NoSubject,
   after |-> IF toolName \in DOMAIN S1.streams THEN S1.streams[toolName] ELSE NoSubject,
   fresh |-> S.next,
   arg |-> arg, out |-> out]

CallSetCallback(cb) ==
  /\ nOps < MaxStreamOps
  /\ SetStreamState(setCallback(StreamState, cb))
  /\ lastOp' = <<Op("setCallback", Undefined, Undefined, StreamState,
                    setCallback(StreamState, cb), cb, <<>>)>>
  /\ nOps' = nOps + 1
  /\ sinkFrame

CallSetStreamingEnabled(enabled) ==
  /\ nOps < MaxStreamOps
  /\ SetStreamState(setStreamingEnabled(StreamState, enabled))
  /\ lastOp' = <<Op("setStreamingEnabled", Undefined, Undefined, StreamState,
                    setStreamingEnabled(StreamState, enabled), enabled, <<>>)>>
  /\ nOps' = nOps + 1
  /\ sinkFrame

Publish(type, toolName) ==
  /\ nOps < MaxStreamOps
  /\ LET r == PublishMethod(StreamState, type, toolName)
     IN /\ SetStreamState(r.s)
        /\ lastOp' = <<Op("publish", type, toolName, StreamState, r.s, Undefined,
                          r.out)>>
  /\ nOps' = nOps + 1
  /\ sinkFrame

InitStream ==
  /\ \E so \in StreamOptionSet :
       /\ streamEnabled = StreamConstructor(so).enabled
       /\ callback = StreamConstructor(so).cb
  /\ streams = [n \in ToolNames |-> NoSubject]
  /\ nextSubject = 1
  /\ cleanups = [n \in ToolNames |-> 0]
  /\ throwing \in SUBSET {"A"}
  /\ lastOp = <<>> /\ nOps = 0
  /\ execs = <<>>
  /\ IdleTimeout /\ IdleCfg /\ IdleDisc /\ IdleMem /\ IdleCoord /\ IdleAgents
  /\ IdleRag /\ IdleOpt

NextStream ==
  \/ \E cb \in Callbacks : CallSetCallback(cb)
  \/ \E enabled \in BOOLEAN : CallSetStreamingEnabled(enabled)
  \/ \E type \in UpdateTypes, toolName \in StreamTools : Publish(type, toolName)
  \/ \E toolName \in StreamTools : Cleanup(toolName)

SpecStream == InitStream /\ [][NextStream]_vars

\* The timers set by setTimeout fire.
LiveSpecStream == SpecStream /\ \A toolName \in StreamTools : WF_vars(Cleanup(toolName))

\* =============================================== retrieval wrapper (RAG chain)
\* How similaritySearch ends: with documents, with none, or by throwing.
SearchOutcomes == {"found", "empty", "throws"}

RagContextText == "Relevant information from knowledge base"

\* A createRagContext whose catch rethrows instead of returning ''.
createRagContext_Rethrow(search) ==
  CASE search = "found" -> [ok |-> TRUE, value |-> RagContextText]
    [] search = "empty" -> [ok |-> TRUE, value |-> ""]
    [] OTHER -> [ok |-> FALSE, value |-> ""]

\* VectorStoreService.createRagContext: the formatted documents, '' when there
\* are none, and '' as well when the search throws (its catch logs and
\* returns '').
createRagContext(search) ==
  CASE search = "found" -> [ok |-> TRUE, value |-> RagContextText]
    [] search = "empty" -> [ok |-> TRUE, value |-> ""]
    [] OTHER -> [ok |-> TRUE, value |-> ""]

\* An input handed to the wrapped executor: whether it has a context key, and
\* the messages under it.
WithContext(query, context) ==
  [input |-> query, hasContext |-> TRUE,
   context |-> IF context # "" THEN <<context>> ELSE <<>>]
WithoutContext(query) == [input |-> query, hasContext |-> FALSE, context |-> <<>>]

NewRagCall(query) ==
  [query |-> query, pc |-> "query", search |-> Undefined, context |-> "",
   invocations |-> <<>>, settled |-> <<>>, outcome |-> "none", ret |-> Undefined]

ragFrame == UNCHANGED <<streamVars, timeoutVars, cfgVars, execs, discVars, memVars,
                        coordVars, agentVars, sinkVars, optVars>>

\* invoke(input) of the wrapper, up to its await of createRagContext.
RagInvoke(query) ==
  /\ nRag < MaxInvokes
  /\ Len(ragCall) = 1 => ragCall[1].pc = "done"
  /\ ragCall' = <<NewRagCall(query)>>
  /\ nRag' = nRag + 1
  /\ UNCHANGED <<ragOptions, ragSaved>>
  /\ ragFrame

\* createRagContext settles: the executor is invoked with the context added
\* to the input, or, were it to reject, the catch invokes it with the input.
RagContext(search) ==
  /\ Len(ragCall) = 1
  /\ ragCall[1].pc = "query"
  /\ LET c == ragCall[1]
         r == createRagContext(search)
     IN ragCall' =
          <<IF r.ok
              THEN [c EXCEPT !.search = search, !.context = r.value, !.pc = "exec",
                             !.invocations = Append(@, WithContext(c.query, r.value))]
              ELSE [c EXCEPT !.search = search, !.pc = "fallback",
                             !.invocations = Append(@, WithoutContext(c.query))]>>
  /\ UNCHANGED <<ragOptions, ragSaved, nRag>>
  /\ ragFrame

\* executor.invoke(inputWithContext) settles.  Resolved: the context is saved
\* first when configured, else the result is returned.  Rejected: the catch
\* invokes the executor again with the plain input.
RagExecutorSettles(settles) ==
  /\ Len(ragCall) = 1
  /\ ragCall[1].pc = "exec"
  /\ LET c == ragCall[1]
         d == [c EXCEPT !.settled = Append(@, settles)]
     IN ragCall' =
          <<IF settles.ok
              THEN IF ragOptions.storeRetrievedContext /\ ragOptions.memory
                      /\ c.context # ""
                     THEN [d EXCEPT !.pc = "store"]
                     ELSE [d EXCEPT !.pc = "done", !.outcome = "ok",
                                    !.ret = settles.value]
              ELSE [d EXCEPT !.pc = "fallback",
                             !.invocations = Append(@, WithoutContext(c.query))]>>
  /\ UNCHANGED <<ragOptions, ragSaved, nRag>>
  /\ ragFrame

\* executor.memory.saveContext of the retrieved context settles; its error is
\* logged and the result is returned either way.
RagStore(saved) ==
  /\ Len(ragCall) = 1
  /\ ragCall[1].pc = "store"
  /\ ragSaved' = IF saved THEN Append(ragSaved, ragCall[1].context) ELSE ragSaved
  /\ ragCall' = <<[ragCall[1] EXCEPT !.pc = "done", !.outcome = "ok",
                                     !.ret = ragCall[1].settled[1].value]>>
  /\ UNCHANGED <<ragOptions, nRag>>
  /\ ragFrame

\* The executor.invoke(input) of the catch settles: its outcome is the call's.
RagFallbackSettles(settles) ==
  /\ Len(ragCall) = 1
  /\ ragCall[1].pc = "fallback"
  /\ ragCall' = <<[ragCall[1] EXCEPT
                     !.pc = "done",
                     !.settled = Append(@, settles),
                     !.outcome = IF settles.ok THEN "ok" ELSE "rejected",
                     !.ret = settles.value]>>
  /\ UNCHANGED <<ragOptions, ragSaved, nRag>>
  /\ ragFrame

InitRag ==
  /\ ragOptions \in [storeRetrievedContext : BOOLEAN, memory : BOOLEAN]
  /\ ragCall = <<>> /\ ragSaved = <<>> /\ nRag = 0
  /\ execs = <<>>
  /\ IdleStream /\ IdleTimeout /\ IdleCfg /\ IdleDisc /\ IdleMem /\ IdleCoord
  /\ IdleAgents /\ IdleSink /\ IdleOpt

NextRag ==
  \/ \E query \in Messages : RagInvoke(query)
  \/ \E search \in SearchOutcomes : RagContext(search)
  \/ \E settles \in SettleSet : RagExecutorSettles(settles)
  \/ \E saved \in BOOLEAN : RagStore(saved)
  \/ \E settles \in SettleSet : RagFallbackSettles(settles)

SpecRag == InitRag /\ [][NextRag]_vars

\* ================================================================== claims
TerminalTypes == {"complete", "error", "timeout"}

\* The positions of an execution's trace that hold an update of the given
\* types handed to the tool's channel, a call of the global callback with
\* one, and the wrapper's return.
EmitsOf(tr, types) == { j \in 1..Len(tr) : tr[j].k = "emit" /\ tr[j].type \in types }
DeliveriesOf(tr, types) == { j \in 1..Len(tr) : tr[j].k = "deliver" /\ tr[j].type \in types }
ReturnsOf(tr) == { j \in 1..Len(tr) : tr[j].k = "return" }
TimeoutCallbacksOf(tr) == { j \in 1..Len(tr) : tr[j].k = "onToolTimeout" }

Execs == 1..Len(execs)

\* C1: every execution of a streaming-enabled tool emits exactly one terminal
\* update (complete, error or timeout), at most one at any time and one once
\* the wrapper has returned, and emits no progress update after it.
C1_OneTerminalNoProgressAfter ==
  \A i \in Execs :
    LET e == execs[i]
        term == EmitsOf(e.trace, TerminalTypes)
        prog == EmitsOf(e.trace, {"progress"})
    IN e.streaming =>
         /\ Cardinality(term) <= 1
         /\ e.pc = "done" => Cardinality(term) = 1
         /\ \A j \in prog, k \in term : j < k

\* C2: a body that raises with message m makes the wrapper return the text
\* "Error: m" (it never throws), and with streaming enabled for the tool
\* exactly one error update carrying m is emitted.
C2_RaiseBecomesErrorText ==
  \A i \in Execs :
    LET e == execs[i]
    IN e.outcome \in {"error", "timeoutError"} =>
         /\ e.ret = "Error: " \o e.settled
         /\ e.streaming =>
              Cardinality({ j \in EmitsOf(e.trace, {"error"}) :
                              e.trace[j].payload = e.settled }) = 1

\* An execution whose deadline elapses while the race is open, as a step.
DeadlineStep(i) ==
  /\ i \in Execs
  /\ execs[i].pc = "running"
  /\ execs'[i].outcome = "deadline"

TimeoutDeliveredBeforeReturn(e) ==
  \E j \in DeliveriesOf(e.trace, {"timeout"}) :
    /\ e.trace[j].toolName = e.tool.name
    /\ e.trace[j].cb = callback
    /\ \A r \in ReturnsOf(e.trace) : j < r

\* C3 as stated: when the deadline elapses before the body settles, the
\* wrapper returns the timeout text and, a global sink being registered, a
\* timeout update for the tool has been delivered to it before the return.
C3_TimeoutDeliveredAlways ==
  [][\A i \in 1..MaxExec :
       DeadlineStep(i) =>
         /\ execs'[i].ret = TimeoutResult(execs[i].dur)
         /\ callback # Undefined => TimeoutDeliveredBeforeReturn(execs'[i])]_vars

\* C3 amended: when the deadline elapses before the body settles, the
\* wrapper returns the timeout text; and when streaming is enabled on the
\* stream service at that time, a timeout update for the tool has been put
\* on its channel, and delivered to the registered global sink, before the
\* return.
C3_TimeoutDeliveredWhenStreaming ==
  [][\A i \in 1..MaxExec :
       DeadlineStep(i) =>
         LET e == execs'[i]
         IN /\ e.ret = TimeoutResult(execs[i].dur)
            /\ Len(e.trace) > 0 /\ e.trace[Len(e.trace)].k = "return"
            /\ streamEnabled =>
                 /\ \E j \in EmitsOf(e.trace, {"timeout"}) :
                      e.trace[j].toolName = e.tool.name
                 /\ callback # Undefined => TimeoutDeliveredBeforeReturn(e)]_vars

C3_Witness ==
  \E i \in Execs :
    /\ execs[i].outcome = "deadline"
    /\ execs[i].body = "running"
    /\ callback # Undefined
    /\ DeliveriesOf(execs[i].trace, {"timeout"}) # {}

\* C4: a raced execution whose body settles while the race is open returns
\* the body's result unchanged, has its deadline timer cleared, and no
\* timeout update and no timeout callback is ever produced for it.
C4_SettledBeforeDeadline ==
  \A i \in Execs :
    LET e == execs[i]
    IN e.raced /\ e.outcome \in {"result", "error", "timeoutError"} =>
         /\ e.outcome = "result" => e.ret = e.settled
         /\ e.timer = "cleared"
         /\ EmitsOf(e.trace, {"timeout"}) = {}
         /\ TimeoutCallbacksOf(e.trace) = {}

\* C5: when the deadline elapses while the body has not settled, the timed-out
\* outcome is produced without waiting for the body, and the execution's
\* cancellation token is cancelled at that point.
C5_TokenCancelledOnTimeout ==
  \A i \in Execs :
    LET e == execs[i]
    IN e.outcome = "deadline" =>
         /\ e.ret = TimeoutResult(e.dur)
         /\ e.token = "cancelled"

\* C6: a tool that declares its own timeout policy is raced against a
\* deadline iff that policy is enabled, with the policy's duration, whatever
\* the global enabled flag is.
OwnPolicyEnabled(timeout) ==
  IF timeout.kind = "number" THEN TRUE ELSE timeout.enabled

C6_PerToolPolicyWins ==
  \A i \in Execs :
    LET e == execs[i]
    IN e.tool.timeout.kind # "undefined" =>
         /\ e.raced <=> OwnPolicyEnabled(e.tool.timeout)
         /\ e.raced => e.dur = e.tool.timeout.durationMs

\* The last configuration call, among the first n, made by one of the ops.
LastCall(n, ops) ==
  LET idx == { j \in 1..n : setCalls[j].op \in ops }
  IN setCalls[CHOOSE j \in idx : \A k \in idx : k <= j]

\* C7: getToolTimeoutConfig returns {enabled: true, durationMs: n} for a
\* numeric timeout n, the declared object for an object, and otherwise the
\* global flag and duration as last set by the constructor or the setters
\* before the call.
C7_ResolveTimeoutPolicy ==
  \A k \in 1..Len(lastConfig) :
    LET c == lastConfig[k]
        t == c.tool.timeout
    IN CASE t.kind = "number" ->
              c.result = [enabled |-> TRUE, durationMs |-> t.durationMs]
         [] t.kind = "object" ->
              c.result = [enabled |-> t.enabled, durationMs |-> t.durationMs]
         [] OTHER ->
              c.result =
                [enabled |-> LastCall(c.at, {"constructor", "setTimeoutEnabled"}).enabled,
                 durationMs |-> LastCall(c.at, {"constructor", "setGlobalTimeoutMs"}).ms]

C7_Witness ==
  /\ Len(lastConfig) = 1
  /\ lastConfig[1].tool.timeout.kind = "undefined"
  /\ lastConfig[1].at = 3
  /\ setCalls[1].enabled /\ setCalls[1].ms = 70
  /\ lastConfig[1].result = [enabled |-> FALSE, durationMs |-> 250]

\* The names of the methods from which a tool can be built, in scan order.
ConstructibleTools ==
  LET m == component.methods
      idx == SelectSeq([k \in 1..Len(m) |-> k], LAMBDA k : m[k] = "tool")
  IN [j \in 1..Len(idx) |-> MethodName(idx[j])]

\* C9: discoverToolsForProvider does not throw, and returns a tool for every
\* decorated method whose construction succeeds, in scan order, whichever
\* other methods' constructions raise.
C9_DiscoverySkipsBadTools ==
  scanDone => /\ ~scanThrew
              /\ tools = ConstructibleTools

C9_Witness ==
  /\ scanDone
  /\ Len(component.methods) = 3
  /\ component.methods[1] = "tool"
  /\ component.methods[2] = "bad"
  /\ component.methods[3] = "tool"
  /\ Len(tools) = 2

\* C10: getMessages returns exactly the messages appended to the session, in
\* append order, and a call of getMessages leaves the stored history as it
\* was.
C10_MemoryRoundTrip ==
  \A k \in 1..Len(lastRead) :
    /\ lastRead[k].result = lastRead[k].appended
    /\ lastRead[k].after = lastRead[k].before

C10_Witness ==
  /\ Len(lastRead) = 1
  /\ lastRead[1].key = "s1"
  /\ lastRead[1].result = <<HumanMessage("a"), AIMessage("b")>>
  /\ sessionMemory["s1"].msgs = lastRead[1].result

IsPrefix(s, t) == Len(s) <= Len(t) /\ SubSeq(t, 1, Len(s)) = s

\* A step that is an explicit clearMemory call for the session key.
ExplicitClear(key) ==
  \E sid \in SessionArgs : SessionKey(sid) = key /\ CallClearMemory(sid)

\* C11: a session's history is append-only between explicit clears: every
\* step of the store and of the memory adapter that is not a clearMemory call
\* for the session leaves the session's previous history as a prefix of the
\* new one, so earlier messages are never reordered, removed or deduplicated.
C11_AppendOnlyBetweenClears ==
  [][\A key \in SessionKeys :
       \/ IsPrefix(sessionMemory[key].msgs, sessionMemory'[key].msgs)
       \/ ExplicitClear(key)]_vars

C11_Witness ==
  /\ Len(adapter) = 1
  /\ adapter[1].sessionId = "s1"
  /\ sessionMemory["s1"].msgs =
       <<HumanMessage("a"), HumanMessage("a"), AIMessage("b")>>
  /\ adapter[1].chatHistory = <<HumanMessage("a"), HumanMessage("a"), AIMessage("b")>>

Calls == 1..Len(calls)

\* The exchange of a call that resolved: its human message, then its response.
Exchange(c) == <<HumanMessage(c.message), AIMessage(c.ret)>>

ContainsExchange(history, c) ==
  \E k \in 1..(Len(history) - 1) :
    history[k] = Exchange(c)[1] /\ history[k + 1] = Exchange(c)[2]

\* C12: when a processMessage call on a session resolved before a second call
\* on the same session was made, the history supplied to the executor for the
\* second call's model invocation contains the first call's human message
\* followed by its AI response.
C12_SecondCallSeesFirstExchange ==
  \A i \in Calls, j \in Calls :
    ( /\ i \in calls[j].after
      /\ calls[i].outcome = "ok"
      /\ SessionKey(calls[i].sessionId) = SessionKey(calls[j].sessionId)
      /\ calls[j].invoked )
    => /\ calls[j].supplied # <<>>
       /\ ContainsExchange(calls[j].supplied[1], calls[i])

\* The calls that resolve in a step.
ResolvingCalls ==
  { i \in 1..MaxCalls : /\ i \in 1..Len(calls')
                        /\ calls'[i].outcome = "ok"
                        /\ (i \in Calls => calls[i].outcome = "none") }

\* C13: a processMessage call for session s that resolves, streaming or not,
\* appends to the history of s its human message followed by one AI message
\* with the returned response, and nothing else is appended to any history.
C13_ExchangeAppendedToOwnSession ==
  [][\A key \in SessionKeys :
       LET done == { i \in ResolvingCalls : SessionKey(calls'[i].sessionId) = key }
       IN sessionMemory'[key].msgs =
            IF done = {} THEN sessionMemory[key].msgs
            ELSE sessionMemory[key].msgs \o Exchange(calls'[CHOOSE i \in done : TRUE])]_vars

\* C14: with no agent registered, a processMessage call that has re-run
\* discovery and initialize is not stuck: its next step rejects it with the
\* initialization error, it never resolves, and the coordinator stays
\* uninitialized; a later call runs discovery again and is not rejected for
\* initialization once an agent could be registered.
C14_NoAgentsRaisesInitError ==
  /\ [](\A i \in Calls :
          /\ (agents = {}) => (~initialized /\ coordinatorAgent = 0)
          /\ (calls[i].pc = "initialize") => (calls[i].onDemand /\ ENABLED Initialize(i))
          /\ (calls[i].error = InitializationError) =>
               (calls[i].outcome = "rejected" /\ ~calls[i].invoked /\ ~calls[i].canRegister)
          /\ (calls[i].onDemand /\ calls[i].canRegister) =>
               calls[i].error # InitializationError)
  /\ [][\A i \in 1..MaxCalls :
          (i \in Calls /\ calls[i].pc = "initialize" /\ agents = {}) =>
            /\ calls'[i].pc \in {"initialize", "done"}
            /\ calls'[i].pc = "done" =>
                 /\ calls'[i].outcome = "rejected"
                 /\ calls'[i].error = InitializationError
                 /\ ~initialized' /\ coordinatorAgent' = 0]_vars

C14_Witness ==
  /\ Len(calls) = 2
  /\ calls[1].outcome = "rejected" /\ calls[1].error = InitializationError
  /\ 1 \in calls[2].after
  /\ calls[2].onDemand
  /\ calls[2].outcome = "ok"

C16_DelegationNeverRaises ==
  /\ [](\A k \in 1..Len(lastDelegation) :
          LET d == lastDelegation[k]
          IN /\ d.settles.ok => d.result = d.settles.value
             /\ ~d.settles.ok =>
                  d.result = "Error with " \o d.agent \o ": " \o d.settles.value)
  /\ [][lastDelegation' # lastDelegation =>
          /\ \A i \in Calls : /\ calls'[i].pc = calls[i].pc
                              /\ calls'[i].outcome = calls[i].outcome
          /\ calls'[lastDelegation'[1].call].outcome = "none"]_vars

C16_Witness ==
  /\ Len(lastDelegation) = 1
  /\ lastDelegation[1].agent = "beta"
  /\ ~lastDelegation[1].settles.ok
  /\ lastDelegation[1].result = "Error with beta: boom"
  /\ calls[lastDelegation[1].call].outcome = "ok"

RECURSIVE Concat(_)
Concat(tokens) ==
  IF tokens = <<>> THEN "" ELSE tokens[1] \o Concat(Tail(tokens))

StreamedOk(c) == c.streaming /\ c.outcome = "ok"

\* C17 as stated: on the streaming path every token of the model is forwarded
\* to onToken once, in arrival order, and the returned string is the
\* concatenation of the forwarded tokens.
C17_EveryTokenForwarded ==
  \A i \in Calls :
    (calls[i].streaming /\ calls[i].onToken) =>
      /\ calls[i].forwarded = calls[i].produced
      /\ calls[i].outcome = "ok" => calls[i].ret = Concat(calls[i].forwarded)

\* C17 amended: on the streaming path every non-empty token of the model is
\* forwarded to onToken once, in arrival order (empty tokens are not
\* forwarded; nothing is forwarded without an onToken), and the returned
\* string is the concatenation of the non-empty tokens in that order.
C17_NonEmptyTokensForwarded ==
  \A i \in Calls :
    LET nonEmpty == SelectSeq(calls[i].produced, LAMBDA t : t # "")
    IN calls[i].streaming =>
         /\ calls[i].forwarded = IF calls[i].onToken THEN nonEmpty ELSE <<>>
         /\ calls[i].fullResponse = Concat(nonEmpty)
         /\ calls[i].outcome = "ok" => calls[i].ret = Concat(nonEmpty)

C17_Witness ==
  \E i \in Calls :
    /\ StreamedOk(calls[i]) /\ calls[i].onToken
    /\ calls[i].produced = <<"x", "y">>
    /\ calls[i].forwarded = <<"x", "y">>
    /\ calls[i].ret = "xy"

ErrorPrefixes == {"", "Error processing message: "}

\* C18: when the executor fails with message m, processMessage rejects, with
\* a message that contains "Error processing message: m" on the non-streaming
\* path and "Error processing streaming message: m" on the streaming path,
\* also after tokens were forwarded; it does not resolve.
C18_ExecutorFailureRejects ==
  \A i \in Calls :
    calls[i].failure # "" =>
      /\ calls[i].outcome = "rejected" /\ calls[i].pc = "done" /\ calls[i].ret = ""
      /\ \E pre \in ErrorPrefixes :
           calls[i].error =
             pre \o (IF calls[i].streaming
                       THEN "Error processing streaming message: "
                       ELSE "Error processing message: ") \o calls[i].failure

C18_Witness ==
  \E i \in Calls :
    /\ calls[i].streaming /\ calls[i].forwarded = <<"x">>
    /\ calls[i].failure = "boom"
    /\ calls[i].error = "Error processing message: Error processing streaming message: boom"

Range(seq) == { seq[k] : k \in 1..Len(seq) }

PromptOrder == <<"system", "chat_history", "human", "context", "agent_scratchpad">>

\* C19: the prompt of every agent built has the chat-history placeholder iff
\* the declaration enables memory and the context placeholder iff its
\* retrieval options are enabled; system prompt, human input and scratchpad
\* are always there, and the parts come in the order system, history, human,
\* context, scratchpad, each at most once.
C19_PromptAssembly ==
  \A n \in AgentNames :
    \A k \in 1..Len(agentInfos[n]) :
      LET info == agentInfos[n][k]
          parts == Range(info.prompt)
      IN /\ ("chat_history" \in parts) <=> info.useMemory
         /\ ("context" \in parts) <=> info.retrievalEnabled
         /\ {"system", "human", "agent_scratchpad"} \subseteq parts
         /\ info.prompt = SelectSeq(PromptOrder, LAMBDA part : part \in parts)

C19_Witness ==
  /\ Len(agentInfos["alpha"]) = 1 /\ Len(agentInfos["beta"]) = 1
  /\ agentInfos["alpha"][1].prompt = PromptOrder
  /\ agentInfos["beta"][1].prompt = <<"system", "human", "agent_scratchpad">>

\* An agent provider the pass constructs, and one whose construction succeeds.
Constructed(provider) ==
  /\ provider.instance /\ provider.agentMetadata
  /\ (provider.ntools > 0 \/ MergedRetrieval(provider).enabled)

Constructible(provider) ==
  \/ provider.model.modelType \in {Undefined, "openai", "anthropic", "mistral", "llama"}
  \/ provider.model.modelType = "custom" /\ provider.model.modelProvider

\* C20: a discovery pass does not raise, and at its end the registered agents
\* are exactly those whose construction succeeded: a provider whose model
\* cannot be built (unsupported type, custom without a model) is left out and
\* the others are registered.
C20_FailedAgentSkipped ==
  passDone =>
    /\ ~passThrew
    /\ { n \in AgentNames : agentInfos[n] # <<>> }
         = { agentProviders[k].name :
               k \in { j \in 1..Len(agentProviders) :
                         Constructed(agentProviders[j]) /\ Constructible(agentProviders[j]) } }

C20_Witness ==
  /\ passDone
  /\ Len(agentProviders) = 2
  /\ agentProviders[1].name = "alpha" /\ Constructed(agentProviders[1])
  /\ agentProviders[1].model.modelType = "custom" /\ ~agentProviders[1].model.modelProvider
  /\ agentProviders[2].name = "beta"
  /\ agentInfos["alpha"] = <<>> /\ agentInfos["beta"] # <<>>

\* C21: when the similarity query of a wrapper's invoke failed, the wrapped
\* executor is still run, with an empty context, and when that run resolves
\* the invoke resolves with its result: the invoke rejects only if the
\* executor itself rejected.
C21_RetrievalFailureFallsBack ==
  \A k \in 1..Len(ragCall) :
    LET c == ragCall[k]
    IN c.search = "throws" =>
         /\ Len(c.invocations) >= 1
         /\ c.invocations[1] = WithContext(c.query, "")
         /\ c.pc = "done" =>
              /\ c.settled[1].ok => c.outcome = "ok" /\ c.ret = c.settled[1].value
              /\ c.outcome = "rejected" => ~c.settled[1].ok

C21_Witness ==
  /\ Len(ragCall) = 1
  /\ ragCall[1].search = "throws"
  /\ ragCall[1].pc = "done" /\ ragCall[1].outcome = "ok" /\ ragCall[1].ret = "r"
  /\ Len(ragCall[1].invocations) = 1

\* C22: a callback that throws while it handles an update stops nothing: the
\* update it was called with directly is still handed to the tool's Subject,
\* whose subscribers get it; the updates that follow are published; and the
\* execution goes on to its result, so that a body that resolves within its
\* deadline has its completion published and its value returned.
C22_SubscriberFailureContained ==
  \A i \in Execs :
    LET e == execs[i]
        tr == e.trace
    IN /\ \A j \in 1..Len(tr) :
            (tr[j].k = "deliver" /\ tr[j].via = "direct" /\ tr[j].type = "progress")
              => /\ j < Len(tr)
                 /\ tr[j + 1].k = "emit" /\ tr[j + 1].type = "progress"
       /\ (e.pc = "done" /\ e.outcome = "result") =>
            /\ e.ret = e.settled
            /\ e.streaming => EmitsOf(tr, {"complete"}) # {}
            /\ ReturnsOf(tr) = {Len(tr)}

C22_Witness ==
  \E i \in Execs :
    LET tr == execs[i].trace
    IN /\ execs[i].pc = "done" /\ execs[i].outcome = "result"
       /\ \E j \in DeliveriesOf(tr, {"progress"}) :
            /\ tr[j].via = "direct" /\ tr[j].cb \in throwing
            /\ \E k \in DeliveriesOf(tr, {"complete"}) : k > j /\ tr[k].cb \in throwing

CodePublished == {"start", "progress", "complete", "error"}

\* C23: an update published by startToolExecution, updateToolProgress,
\* completeToolExecution or errorToolExecution while the service holds a
\* callback (from the module options or from setCallback) and streaming is
\* enabled is delivered to that callback, whether the tool's Subject was
\* made before or after the callback was stored and whatever Subjects were
\* deleted and made again before.
C23_SinkReceivesEveryUpdate ==
  \A k \in 1..Len(lastOp) :
    LET o == lastOp[k]
    IN (o.op = "publish" /\ o.type \in CodePublished /\ o.enabled /\ o.cb # Undefined)
         => \E j \in 1..Len(o.out) :
              /\ o.out[j].k = "deliver" /\ o.out[j].cb = o.cb
              /\ o.out[j].type = o.type /\ o.out[j].toolName = o.toolName

\* A Subject made while no callback was held, a callback registered after
\* it, and a start update published on that Subject.
C23_Witness ==
  /\ Len(lastOp) = 1
  /\ lastOp[1].op = "publish" /\ lastOp[1].type = "start"
  /\ lastOp[1].cb = "B"
  /\ lastOp[1].subject.id = 1
  /\ nextSubject = 2
  /\ \E j \in 1..Len(lastOp[1].out) : lastOp[1].out[j].k = "deliver"

\* The last call published a terminal update for the tool.
TerminalPublished(toolName) ==
  /\ Len(lastOp) = 1
  /\ lastOp[1].op = "publish" /\ lastOp[1].type \in TerminalTypes
  /\ lastOp[1].enabled /\ lastOp[1].toolName = toolName

\* C24: after a terminal update (complete, error, timeout) was published for
\* a tool, the tool's Subject is eventually deleted from the map; and a start
\* published while the map holds no Subject for the tool, be it the first of
\* the tool or one after a deletion, makes a new Subject, subscribed once to
\* the callback when one is held, and is delivered through it once.
C24_ChannelRemovedThenRecreated ==
  /\ \A toolName \in StreamTools :
       TerminalPublished(toolName) ~> (streams[toolName].id = 0)
  /\ [](\A k \in 1..Len(lastOp) :
          LET o == lastOp[k]
          IN (o.op = "publish" /\ o.type = "start" /\ o.enabled /\ o.subject.id = 0)
               => /\ o.after = [id |-> o.fresh,
                                subs |-> IF o.cb # Undefined THEN 1 ELSE 0]
                  /\ o.out = <<Entry("emit", "start", o.toolName, "in", Undefined,
                                     "subject")>>
                             \o (IF o.cb # Undefined
                                   THEN <<Entry("deliver", "start", o.toolName, "in",
                                                o.cb, "subject")>>
                                   ELSE <<>>))

\* A start published for a tool whose Subject was deleted after a terminal
\* update: the second Subject of the tool.
C24_Witness ==
  /\ Len(lastOp) = 1
  /\ lastOp[1].op = "publish" /\ lastOp[1].type = "start" /\ lastOp[1].toolName = "echo"
  /\ lastOp[1].subject.id = 0 /\ lastOp[1].after.id = 2
  /\ streams["slow"].id = 0
  /\ lastOp[1].cb = "A"

\* C25: an agent that is registered keeps its executor: no step replaces the
\* entry the registry holds for a name.
C25_RegistryReadOnly ==
  [][\A n \in AgentNames : agentInfos[n] # <<>> => agentInfos'[n] = agentInfos[n]]_vars

\* C26: when the module options carry a timeout callback, every execution
\* whose deadline elapsed has called it exactly once, with the tool's name
\* and the duration, whether or not the options carry a timeout policy too;
\* an execution that ended with the body's result or error has not called it.
C26_TimeoutCallbackExactlyOnce ==
  \A i \in Execs :
    LET e == execs[i]
        cbs == TimeoutCallbacksOf(e.trace)
    IN (Len(timeoutOptions) = 1 /\ timeoutOptions[1].onToolTimeout /\ e.pc = "done")
         => /\ e.outcome = "deadline" =>
                 /\ Cardinality(cbs) = 1
                 /\ \A j \in cbs : /\ e.trace[j].toolName = e.tool.name
                                   /\ e.trace[j].payload = ToString(e.dur)
            /\ e.outcome \in {"result", "error"} => cbs = {}

\* C27: in the trace of an execution, every progress update, handed to the
\* Subject or to the callback, comes after a start update of that execution.
C27_StartBeforeProgress ==
  \A i \in Execs :
    LET tr == execs[i].trace
    IN \A j \in EmitsOf(tr, {"progress"}) \cup DeliveriesOf(tr, {"progress"}) :
         \E k \in EmitsOf(tr, {"start"}) : k < j

\* C28: once the wrapper has returned on its deadline, a body that is still
\* running changes nothing when it resolves or raises: no complete or error
\* update is put out for it, the timeout callback is not called again, and
\* the value returned stays the timeout text.
C28_LateSettlementIgnored ==
  [][\A i \in Execs :
       (execs[i].pc = "done" /\ execs[i].outcome = "deadline"
        /\ execs[i].body = "running" /\ execs'[i].body # "running")
         => /\ execs'[i].trace = execs[i].trace
            /\ execs'[i].ret = execs[i].ret
            /\ execs'[i].ret = TimeoutResult(execs[i].dur)
            /\ execs'[i].outcome = "deadline"
            /\ streams' = streams /\ cleanups' = cleanups]_vars

\* A body that resolved after its wrapper had returned the timeout text.
C28_Witness ==
  \E i \in Execs :
    /\ execs[i].outcome = "deadline" /\ execs[i].body = "resolved"
    /\ execs[i].settled = "hi"
    /\ execs[i].ret = TimeoutResult(execs[i].dur)
    /\ Cardinality(TimeoutCallbacksOf(execs[i].trace)) = 1
    /\ EmitsOf(execs[i].trace, {"complete", "error"}) = {}

\* What a construction step and a saveContext step of given values do to the
\* adapter's own history and to the store's history of the adapter's session.
ConstructedWithStoreHistory(sid) ==
  CallGetChatMemoryForSession(sid) =>
    /\ adapter'[1].sessionId = SessionKey(sid)
    /\ adapter'[1].chatHistory = sessionMemory[SessionKey(sid)].msgs
    /\ adapter'[1].chatHistory = sessionMemory'[SessionKey(sid)].msgs

BothGainExchange(input, output) ==
  CallSaveContext(input, output) =>
    LET key == adapter[1].sessionId
        exchange == <<HumanMessage(input), AIMessage(output)>>
    IN /\ adapter'[1].chatHistory = adapter[1].chatHistory \o exchange
       /\ sessionMemory'[key].msgs = sessionMemory[key].msgs \o exchange

Concurrent(i, j) ==
  /\ i # j
  /\ j \in 1..Len(calls') /\ i \in 1..Len(calls')
  /\ j \notin calls'[i].after /\ i \notin calls'[j].after

\* C30: when a call resolves while another call on the same session runs
\* concurrently with it, its exchange is what the step adds to the session's
\* history, at the end: the exchanges are in the order the calls complete and
\* the human and AI message of each are adjacent.
C30_ExchangesInCompletionOrder ==
  [][\A i \in ResolvingCalls :
       LET key == SessionKey(calls'[i].sessionId)
       IN (\E j \in 1..MaxCalls :
             Concurrent(i, j) /\ SessionKey(calls'[j].sessionId) = key)
            => sessionMemory'[key].msgs
                 = sessionMemory[key].msgs \o Exchange(calls'[i])]_vars

\* C31: an execution of a tool that is not marked as streaming puts out no
\* update: nothing is handed to a Subject or to the callback for it.
C31_NonStreamingToolSilent ==
  \A i \in Execs :
    ~execs[i].tool.streaming =>
      \A j \in 1..Len(execs[i].trace) : execs[i].trace[j].k \notin {"emit", "deliver"}

\* The calls whose model invocation begins in a step.
InvokedNow == { i \in Calls : ~calls[i].invoked /\ calls'[i].invoked }

\* C32: a call made for a session leaves the histories of the other sessions
\* as they are when it resolves, and the memory its model invocation reads
\* its history from is the adapter of its own session.
C32_SessionsIsolated ==
  [][/\ \A i \in ResolvingCalls :
          \A key \in SessionKeys :
            key # SessionKey(calls'[i].sessionId)
              => sessionMemory'[key].msgs = sessionMemory[key].msgs
     /\ \A i \in InvokedNow :
          ~calls[i].streaming =>
            LET memory == executors[coordinatorAgent].memory
            IN memory # <<>> => memory[1].sessionId = SessionKey(calls[i].sessionId)]_vars

\* C33: once the coordinator holds an executor, no step makes it hold
\* another: neither the startup timer's initialize nor an initialize run by a
\* processMessage call replaces it.
C33_ExecutorBuiltOnce ==
  [][coordinatorAgent # 0 => coordinatorAgent' = coordinatorAgent]_vars

\* The last method called on the service published a start for the tool, so
\* no terminal update of the tool was published since.
StartedLast(toolName) ==
  /\ Len(lastOp) = 1
  /\ lastOp[1].op = "publish" /\ lastOp[1].type = "start"
  /\ lastOp[1].enabled /\ lastOp[1].toolName = toolName

\* C34: between the start of an execution of a tool and its terminal update
\* a teardown timer does not take the tool's Subject out of the map: a step
\* that is no method call leaves the map's entry for the tool as the start
\* left it.
C34_TeardownSparesChannelInUse ==
  [][\A toolName \in StreamTools :
       (StartedLast(toolName) /\ nOps' = nOps)
         => streams'[toolName] = lastOp[1].after]_vars

\* The deliveries of a call's update to the given callback.
DeliveredTo(o, cb) ==
  { j \in 1..Len(o.out) :
      /\ o.out[j].k = "deliver" /\ o.out[j].cb = cb
      /\ o.out[j].type = o.type /\ o.out[j].toolName = o.toolName }

\* C35: a start, complete or error update published while streaming is
\* enabled and a callback is held is delivered to that callback exactly once,
\* however many times setCallback was called and whether the tool's Subject
\* was made before or after those calls.
C35_DeliveredExactlyOnce ==
  \A k \in 1..Len(lastOp) :
    LET o == lastOp[k]
    IN (/\ o.op = "publish" /\ o.type \in {"start", "complete", "error"}
        /\ o.enabled /\ o.cb # Undefined)
         => Cardinality(DeliveredTo(o, o.cb)) = 1

\* C36: the service has one sink at a time: every invocation of a callback
\* made for a published update is an invocation of the callback the service
\* holds when the update is published, so a callback that setCallback
\* replaced is not invoked for later updates, and the one that replaced it
\* is.
C36_OneActiveSink ==
  \A k \in 1..Len(lastOp) :
    LET o == lastOp[k]
    IN o.op = "publish"
         => /\ \A j \in 1..Len(o.out) : o.out[j].k = "deliver" => o.out[j].cb = o.cb
            /\ (o.type \in CodePublished /\ o.enabled /\ o.cb # Undefined)
                 => DeliveredTo(o, o.cb) # {}

\* The Subject of a tool was made while the callback of the module options
\* (A) was held, setCallback(B) replaced A, and an update was then published
\* on that Subject and delivered.
C36_Witness ==
  /\ Len(lastOp) = 1 /\ nOps = 3
  /\ lastOp[1].op = "publish" /\ lastOp[1].type = "complete"
  /\ lastOp[1].cb = "B"
  /\ lastOp[1].subject = [id |-> 1, subs |-> 2]
  /\ DeliveredTo(lastOp[1], "B") # {}

\* C37: a call of the retrieval wrapper's invoke that has ended ran the
\* wrapped executor exactly once, and when that run rejected, the call
\* rejects with the run's error.
C37_ExecutorRunsOnce ==
  \A k \in 1..Len(ragCall) :
    LET c == ragCall[k]
    IN c.pc = "done"
         => /\ Len(c.invocations) = 1
            /\ ~c.settled[1].ok
                 => c.outcome = "rejected" /\ c.ret = c.settled[1].value

HasPlaceholder(prompt, name) == \E j \in 1..Len(prompt) : prompt[j] = name

\* C38: a registered agent whose prompt has the context placeholder is
\* registered with the retrieval wrapper, the one caller of its executor that
\* adds a context key to the input; registered with the plain executor, the
\* agent is invoked with the input alone.
C38_ContextAlwaysSupplied ==
  \A n \in AgentNames :
    agentInfos[n] # <<>>
      => (HasPlaceholder(agentInfos[n][1].prompt, "context") => agentInfos[n][1].wrapped)

\* The calls that resolve in the step.
ResolvedNow == { i \in Calls : calls[i].outcome = "none" /\ calls'[i].outcome = "ok" }

\* The calls that reject in the step.
RejectedNow == { i \in Calls : calls[i].outcome = "none" /\ calls'[i].outcome = "rejected" }

HistoryUnchanged ==
  \A key \in SessionKeys : sessionMemory'[key].msgs = sessionMemory[key].msgs

\* C39: a processMessage call that fails leaves the stored history of every
\* session as it was: the step in which a call rejects changes no history,
\* and no other step of a call does unless the call resolves in it.
C39_FailureLeavesHistory ==
  [][/\ RejectedNow # {} => HistoryUnchanged
     /\ ResolvedNow = {} => HistoryUnchanged]_vars

\* A streaming call rejected after a token was collected, while a session
\* holds the exchange of an earlier call.
C39_Witness ==
  \E i \in Calls :
    /\ calls[i].outcome = "rejected" /\ calls[i].streaming
    /\ calls[i].fullResponse # ""
    /\ calls[i].failure # ""
    /\ Len(sessionMemory[SessionKey(calls[i].sessionId)].msgs) = 2

\* A call of one of the store's operations with the given session argument.
StoreOperationOn(sid) ==
  \/ CallGetMessages(sid)
  \/ \E text \in Texts : CallAddHumanMessage(text, sid)
  \/ \E text \in Texts : CallAddAIMessage(text, sid)
  \/ CallClearMemory(sid)
  \/ CallGetChatMemoryForSession(sid)

\* C40: an operation of the store on one session leaves the entry of every
\* other session as it was, and clearMemory leaves its session in the Map
\* with an empty history.
C40_StoreOperationsIsolated ==
  [][\A sid \in SessionArgs :
       /\ StoreOperationOn(sid)
            => \A t \in SessionKeys \ {SessionKey(sid)} :
                 sessionMemory'[t] = sessionMemory[t]
       /\ CallClearMemory(sid)
            => sessionMemory'[SessionKey(sid)] = [has |-> TRUE, msgs |-> <<>>]]_vars

\* Two appends were made, one to each session, and 'default' was cleared
\* since: it is in the Map with no message, and s1 still holds its message.
C40_Witness ==
  /\ nAppends = 2
  /\ sessionMemory["default"] = [has |-> TRUE, msgs |-> <<>>]
  /\ appended["default"] = <<>>
  /\ Len(sessionMemory["s1"].msgs) = 1

====
